---- MODULE Spec2Model ----
(***************************************************************************)
(* R Tutor Pro (grprakasam/LMSAI): the content-generation pipeline with    *)
(* provider fallback, the audio synthesis fallback chain and the request   *)
(* validation in front of them.                                            *)
(*                                                                         *)
(* Text is a sequence of tokens (each token a string), so that emptiness,  *)
(* replacement and interpolation are computed and not assumed.  A Python   *)
(* call is a record: Ret(v) for a returned value, Raise(e) for a raised    *)
(* exception; try/except is the test on .raised.                           *)
(***************************************************************************)
EXTENDS Integers, Sequences, FiniteSets, TLC

VARIABLES
    clock,                \* wall clock, in ticks (time.time(), datetime.now())
    last_request_time,    \* OpenRouterService.last_request_time
    ai_last_request_time, \* AITutorialGenerator.last_request_time
    deepseek_key,         \* AITutorialGenerator.deepseek_key is set
    openai_key,           \* AITutorialGenerator.openai_key is set
    tutorials,            \* the rows of the Tutorial table, row i having id i
                          \* (DeletedRow where the row of that id was deleted)
    rate_limit_storage,   \* current_app.rate_limit_storage
    usage_log,            \* the rows of the UsageLog table
    current_user,         \* flask_login.current_user of the session that sends requests
    application,          \* the Flask application that runs: "app" (app.py) or "routes"
    phase,                \* "idle", or the operation whose result is pending delivery
    args,                 \* the arguments of that operation
    env,                  \* what the outside world answered during that operation
    calls,                \* the calls the operation made to the layer below, in order
                          \* (with request threads: every request sent so far)
    result,               \* what the operation returned (or raised)
    threads,              \* per request thread: where it stands inside _rate_limit
                          \* or inside test_openrouter_connection
    openrouter            \* the shared OpenRouterService: its credentials and its
                          \* model status cache

webVars == <<tutorials, rate_limit_storage, usage_log, current_user, application>>

vars == <<clock, last_request_time, ai_last_request_time, deepseek_key, openai_key,
          tutorials, rate_limit_storage, usage_log, current_user, application,
          phase, args, env, calls, result, threads, openrouter>>

-----------------------------------------------------------------------------
(* Bounds of the model *)

MaxClock == 2
TicksPerSecond == 1
MaxTextLen == 1
MaxTutorials == 1
MaxUsageLog == 1
MaxThreadRequests == 2
MaxPieces == 3
MaxViews == 1
MaxClientRequests == 32
MaxSessionChanges == 2
MaxStatusRequests == 3
MaxTests == 1

-----------------------------------------------------------------------------
(* Python values *)

Ret(v) == [raised |-> FALSE, val |-> v]
Raise(e) == [raised |-> TRUE, exc |-> e]

None == [kind |-> "none", text |-> <<>>]
Str(t) == [kind |-> "str", text |-> t]
NonStr == [kind |-> "num", text |-> <<>>]
Bytes(b) == [kind |-> "bytes", text |-> b]

\* bool(v): None and "" are falsy, a non-empty string and a non-zero number truthy
Truthy(v) == CASE v.kind = "none" -> FALSE
               [] v.kind \in {"str", "bytes"} -> Len(v.text) > 0
               [] OTHER -> TRUE

Max(a, b) == IF a >= b THEN a ELSE b
Min(a, b) == IF a <= b THEN a ELSE b

\* tokens of s with every token t for which f is defined replaced by f[t]
MapTokens(s, f) == [i \in 1..Len(s) |-> IF s[i] \in DOMAIN f THEN f[s[i]] ELSE s[i]]

Contains(s, t) == \E i \in 1..Len(s) : s[i] = t

FirstIndex(s, t) == CHOOSE i \in 1..Len(s) : s[i] = t /\ \A j \in 1..(i-1) : s[j] # t

\* str.replace(old, new, 1)
ReplaceFirst(s, old, new) ==
    IF Contains(s, old)
    THEN [i \in 1..Len(s) |-> IF i = FirstIndex(s, old) THEN new ELSE s[i]]
    ELSE s

-----------------------------------------------------------------------------
(* Who sends a request *)

AnonymousUser == [is_authenticated |-> FALSE, ip |-> "1.2.3.4"]
LoggedIn(n) == [is_authenticated |-> TRUE, id |-> n, ip |-> "1.2.3.4"]
Requesters == {AnonymousUser, LoggedIn(1)}

-----------------------------------------------------------------------------
(* Request inputs *)

\* a topic is a string; TopicKeywords lists the keywords that occur in it
\* (Python's `kw in topic.lower()`), TopicLen is len(topic)
Topics == {"", "a", "ggplot2 basics", "loops", "<script>x"}

TopicKeywords(topic) ==
    CASE topic = "ggplot2 basics" -> {"ggplot", "plot"}
      [] topic = "<script>x" -> {"<script"}
      [] topic = "R Data Structures" -> {"structure"}
      [] OTHER -> {}

TopicLen(topic) ==
    CASE topic = "" -> 0
      [] topic = "a" -> 1
      [] topic = "  " -> 2
      [] topic = "loops" -> 5
      [] topic = " loops " -> 7
      [] topic = "<script>x" -> 9
      [] topic = "ggplot2 basics" -> 14
      [] topic = "&lt;script&gt;x" -> 15
      [] topic = "R Data Structures" -> 17
      [] topic = "a topic of 250 characters" -> 250
      [] topic = "a topic of 250 characters, cut at 200..." -> 203
      [] OTHER -> 9

ValidExpertise == {"beginner", "intermediate", "expert"}
Expertises == ValidExpertise \cup {"guru"}
Durations == {0, 1, 4, 60, 61}
TextModels == {"", "openai/gpt-4o"}
ContentLengths == {"medium", "lengthy"}
SvcTopics == {"", "ggplot2 basics", "loops"}
AITopics == {"", "loops"}
AIDurations == {1, 60}
ScriptTexts == {<<>>, <<"[PAUSE]", "ggplot2">>, <<"[EMPHASIS]">>}

default_text_model == "anthropic/claude-3.5-sonnet"
default_audio_model == "openai/tts-1"
min_request_interval == 1

\* the wall clock when the services are constructed: time.time() is then further
\* from last_request_time = 0 than any interval the services wait for
Epoch == min_request_interval * TicksPerSecond

\* the window of utils.rate_limit, in seconds, and the limits the routes pass to it
rate_limit_window == 60
generate_tutorial_rpm == 15
generate_audio_rpm == 10
\* OpenRouterService._cache_duration, in seconds
cache_duration == 300

-----------------------------------------------------------------------------
(* Provider responses (requests.post) *)

TextTokens == {"ggplot2", "Finally", "Note:", " ", "[nl][nl]## ",
               "a sentence of more than 25 words and its second half"}

RECURSIVE SeqsUpTo(_, _)
SeqsUpTo(S, n) ==
    IF n = 0 THEN {<<>>}
    ELSE LET shorter == SeqsUpTo(S, n - 1)
         IN shorter \cup {Append(s, t) : s \in shorter, t \in S}

ProviderTexts == SeqsUpTo(TextTokens, MaxTextLen)

\* the values a JSON body can carry at choices[0].message.content
JsonContents == {Str(t) : t \in ProviderTexts} \cup {None, NonStr}

WellFormed(c) == [choices |-> << [message |-> [content |-> c]] >>]

MalformedJson == { [error |-> "bad request"],
                   [choices |-> <<>>],
                   [choices |-> << [finish_reason |-> "stop"] >>],
                   [choices |-> << [message |-> [role |-> "assistant"]] >> ] }

InvalidBody == [json |-> FALSE]
JsonBody(j) == [json |-> TRUE, value |-> j]

ChatBodies == {InvalidBody} \cup {JsonBody(j) : j \in MalformedJson}
                 \cup {JsonBody(WellFormed(c)) : c \in JsonContents}

ChatResponses ==
    { [kind |-> "exception", exc |-> e] : e \in {"ConnectionError", "Timeout"} }
    \cup { [kind |-> "http", status |-> 200, body |-> b] : b \in ChatBodies }
    \cup { [kind |-> "http", status |-> s, body |-> b] :
             s \in {429, 500},
             b \in {InvalidBody, JsonBody([error |-> "bad request"]),
                    JsonBody(WellFormed(Str(<<"Finally">>)))} }

\* result['choices'][0]['message']['content'] on response.json()
chat_completion_content(body) ==
    IF ~body.json THEN Raise("JSONDecodeError")
    ELSE LET r == body.value IN
         IF "choices" \notin DOMAIN r THEN Raise("KeyError")
         ELSE IF Len(r.choices) = 0 THEN Raise("IndexError")
         ELSE IF "message" \notin DOMAIN r.choices[1] THEN Raise("KeyError")
         ELSE IF "content" \notin DOMAIN r.choices[1].message THEN Raise("KeyError")
         ELSE Ret(r.choices[1].message.content)

\* the body of the try block of a chat-completion call
chat_try_block(resp) ==
    IF resp.kind = "exception" THEN Raise(resp.exc)
    ELSE IF resp.status = 200 THEN chat_completion_content(resp.body)
    ELSE Ret(None)

\* as call_openrouter_chat, with the status code of the response not looked at
call_openrouter_chat_any_status(resp) ==
    LET r == IF resp.kind = "exception" THEN Raise(resp.exc)
             ELSE chat_completion_content(resp.body)
    IN IF r.raised THEN Ret(None) ELSE r

\* OpenRouterService._call_openrouter_chat, after _rate_limit
call_openrouter_chat(resp) ==
    LET r == chat_try_block(resp)
    IN IF r.raised THEN Ret(None) ELSE r

-----------------------------------------------------------------------------
(* OpenRouterService: text generation *)

\* a _rate_limit that never sleeps
rate_limit_wakeup_never_sleeps(now, last) == now

\* OpenRouterService._rate_limit: the time at which it returns
rate_limit_wakeup(now, last) ==
    IF now - last < min_request_interval * TicksPerSecond
    THEN now + (min_request_interval * TicksPerSecond - (now - last))
    ELSE now

create_tutorial_prompt(topic, expertise, duration) ==
    [topic |-> topic, expertise |-> expertise, duration |-> duration,
     target_words |-> duration * 140,
     core_minutes |-> duration - 4,
     guidance |-> IF expertise \in {"beginner", "intermediate"} THEN expertise ELSE "expert"]

pronunciation_map ==
    << <<"ggplot2", "ggplot2 (G-G-plot-two)">>,
       <<"dplyr", "dplyr (D-plier)">>,
       <<"tidyr", "tidyr (tidy-R)">>,
       <<"%>%", "pipe operator (percent greater-than percent)">>,
       <<"data.frame", "data frame">>,
       <<"str()", "str function">>,
       <<"summary()", "summary function">>,
       <<"c()", "c function">>,
       <<"length()", "length function">>,
       <<"names()", "names function">> >>

RECURSIVE add_pronunciation(_, _)
add_pronunciation(text, i) ==
    IF i > Len(pronunciation_map) THEN text
    ELSE LET term == pronunciation_map[i][1]
             pron == pronunciation_map[i][2]
         IN add_pronunciation(
                IF Contains(text, term) /\ ~Contains(text, pron)
                THEN ReplaceFirst(text, term, pron) ELSE text,
                i + 1)

long_sentence_split ==
    [t \in {"a sentence of more than 25 words and its second half"} |->
        "a sentence of more than 25 words. And its second half"]

emphasis_patterns ==
    [t \in {"Important:", "Note:", "Warning:", "Tip:", "Remember:"} |->
        CASE t = "Important:" -> "This is important:"
          [] t = "Note:" -> "Please note:"
          [] t = "Warning:" -> "Here's a warning:"
          [] t = "Tip:" -> "Here's a helpful tip:"
          [] OTHER -> "Remember this:"]

speech_markers ==
    [t \in {"[nl][nl]## ", "In conclusion", "Finally"} |->
        CASE t = "[nl][nl]## " -> "[nl][nl]Now, let's move on to "
          [] t = "In conclusion" -> "To wrap up"
          [] OTHER -> "And finally"]

\* OpenRouterService._optimize_for_audio on a str (steps 1, 4, 5, 7; steps 2, 3
\* and 6 of the source leave the text as it is)
optimize_for_audio(text) ==
    MapTokens(MapTokens(MapTokens(add_pronunciation(text, 1),
        long_sentence_split), emphasis_patterns), speech_markers)

difficulty_base(expertise) ==
    CASE expertise = "beginner" -> Ret(3)
      [] expertise = "intermediate" -> Ret(6)
      [] expertise = "expert" -> Ret(9)
      [] OTHER -> Raise("KeyError")

HasAny(topic, keywords) == keywords \cap TopicKeywords(topic) # {}

\* OpenRouterService._categorize_topic
categorize_topic(topic) ==
    IF HasAny(topic, {"data frame", "vector", "list", "matrix", "structure"})
    THEN "data_structures"
    ELSE IF HasAny(topic, {"plot", "graph", "visual", "chart", "ggplot"})
    THEN "visualization"
    ELSE IF HasAny(topic, {"model", "regression", "machine learning", "statistic", "analysis"})
    THEN "modeling"
    ELSE IF HasAny(topic, {"function", "package", "library", "programming", "code"})
    THEN "programming"
    ELSE IF HasAny(topic, {"dplyr", "tidyr", "wrangle", "clean", "transform", "manipul"})
    THEN "data_wrangling"
    ELSE IF HasAny(topic, {"shiny", "web", "app", "dashboard", "interactive"})
    THEN "web_development"
    ELSE "general"

\* OpenRouterService._parse_tutorial_content
parse_tutorial_content(content, topic, expertise, duration) ==
    IF content.kind # "str" THEN Raise("TypeError")
    ELSE IF difficulty_base(expertise).raised THEN Raise("KeyError")
    ELSE LET audio_optimized_content == optimize_for_audio(content.text)
         IN Ret([content |-> audio_optimized_content,
                 is_premium |-> TRUE,
                 estimated_reading_time |-> Max(1, Len(audio_optimized_content) \div 200),
                 word_count |-> Len(audio_optimized_content),
                 topic_category |-> categorize_topic(topic),
                 generated_via |-> "openrouter",
                 model_used |-> default_text_model])

\* OpenRouterService._get_topic_specific_content: the 'intro' of the topic
topic_specific_intro(topic) ==
    IF {"ggplot", "visualization"} \cap TopicKeywords(topic) # {}
    THEN <<"data visualization with ggplot2">>
    ELSE IF {"machine learning", "ml"} \cap TopicKeywords(topic) # {}
    THEN <<"machine learning techniques in R">>
    ELSE IF "data" \in TopicKeywords(topic)
            /\ {"manipulation", "wrangling"} \cap TopicKeywords(topic) # {}
    THEN <<"data manipulation with dplyr and tidyr">>
    ELSE IF {"shiny", "app"} \cap TopicKeywords(topic) # {}
    THEN <<"interactive web applications with Shiny">>
    ELSE IF {"statistic", "analysis"} \cap TopicKeywords(topic) # {}
    THEN <<"statistical analysis and modeling in R">>
    ELSE IF topic = "" THEN <<" in R programming">>
    ELSE <<topic, " in R programming">>

fallback_intro_text(topic, expertise, content_length) ==
    IF expertise = "beginner"
    THEN <<"Hello and welcome! I'm excited to guide you through your first steps with ">>
         \o topic_specific_intro(topic) \o <<". ... by the end of this ", content_length, " tutorial ...">>
    ELSE IF expertise = "intermediate"
    THEN <<"Welcome back to R programming! Today, we're diving into ">>
         \o topic_specific_intro(topic) \o <<", ... This ", content_length, " tutorial ...">>
    ELSE <<"Welcome to this advanced tutorial on ">>
         \o topic_specific_intro(topic) \o <<". In this ", content_length, " guide ...">>

\* a template that also records the time of the service's last request
generate_fallback_content_stamped(topic, expertise, duration, content_length) ==
    IF difficulty_base(expertise).raised THEN Raise("KeyError")
    ELSE Ret([content |-> <<"# R Tutorial: ">>, is_premium |-> FALSE,
              estimated_reading_time |-> Max(1, duration), word_count |-> 1,
              topic_category |-> categorize_topic(topic),
              generated_via |-> "enhanced_fallback", model_used |-> "local_generation",
              generated_at |-> last_request_time])

\* OpenRouterService._generate_fallback_content
generate_fallback_content(topic, expertise, duration, content_length) ==
    LET content == <<"# R Tutorial: ">> \o (IF topic = "" THEN <<>> ELSE <<topic>>)
                   \o <<"[nl][nl]## ", "Introduction">>
                   \o fallback_intro_text(topic, expertise, content_length)
                   \o <<"[nl][nl]## ", "Final Thoughts", "Happy coding!">>
    IN IF difficulty_base(expertise).raised THEN Raise("KeyError")
       ELSE Ret([content |-> content,
                 is_premium |-> FALSE,
                 estimated_reading_time |-> Max(1, duration),
                 word_count |-> Len(content),
                 topic_category |-> categorize_topic(topic),
                 generated_via |-> "enhanced_fallback",
                 model_used |-> "local_generation"])

\* as generate_tutorial_content_try, with the `if not content` test left out
generate_tutorial_content_try_unchecked(topic, expertise, duration, content_length, resp) ==
    parse_tutorial_content(call_openrouter_chat(resp).val, topic, expertise, duration)

\* the try block of OpenRouterService.generate_tutorial_content
generate_tutorial_content_try(topic, expertise, duration, content_length, resp) ==
    LET content == call_openrouter_chat(resp).val
    IN IF ~Truthy(content)
       THEN generate_fallback_content(topic, expertise, duration, content_length)
       ELSE parse_tutorial_content(content, topic, expertise, duration)

\* OpenRouterService.generate_tutorial_content
generate_tutorial_content(topic, expertise, duration, content_length, resp) ==
    LET r == generate_tutorial_content_try(topic, expertise, duration, content_length, resp)
    IN IF r.raised
       THEN generate_fallback_content(topic, expertise, duration, content_length)
       ELSE r


-----------------------------------------------------------------------------
(* OpenRouterService: audio generation *)

AudioResponses ==
    { [kind |-> "exception", exc |-> e] : e \in {"ConnectionError", "Timeout"} }
    \cup { [kind |-> "http", status |-> 200, content |-> b] : b \in {<<>>, <<"mp3 frames">>} }
    \cup { [kind |-> "http", status |-> 500, content |-> <<"error page">>] }

\* the try block of OpenRouterService._call_openrouter_audio
audio_try_block(resp) ==
    IF resp.kind = "exception" THEN Raise(resp.exc)
    ELSE IF resp.status = 200 THEN Ret(Bytes(resp.content))
    ELSE Ret(None)

\* OpenRouterService._call_openrouter_audio, after _rate_limit
call_openrouter_audio(resp) ==
    LET r == audio_try_block(resp)
    IN IF r.raised THEN Ret(None) ELSE r

\* a generate_audio that reports success whatever the provider returned
generate_audio_optimistic(text, model, format, resp, save_ok) ==
    Ret([success |-> TRUE, audio_url |-> <<"/static/generated_audio/tutorial.", format>>,
         format |-> format, model_used |-> model,
         duration_estimate |-> (Len(text) * 60) \div 200, character_count |-> Len(text)])

\* OpenRouterService.generate_audio; save_ok: _save_audio_file can write the file
generate_audio(text, model, format, resp, save_ok) ==
    LET audio_data == call_openrouter_audio(resp).val
    IN IF Truthy(audio_data)
       THEN IF save_ok
            THEN Ret([success |-> TRUE, audio_url |-> <<"/static/generated_audio/tutorial.", format>>,
                      format |-> format, model_used |-> model,
                      duration_estimate |-> (Len(text) * 60) \div 200,
                      character_count |-> Len(text)])
            ELSE Ret([success |-> FALSE, error |-> "OSError"])
       ELSE Ret([success |-> FALSE, error |-> "Audio generation failed"])

-----------------------------------------------------------------------------
(* aiservices.AITutorialGenerator *)

\* the top-level keys of config.R_TOPICS_CONTENT
R_TOPICS_CONTENT == {"free_topics", "premium_topics"}

\* AITutorialGenerator._get_topic_data: the default entry (no pool entry matches)
get_topic_data(topic, expertise) ==
    [concepts |->
        CASE expertise = "beginner" -> <<"fundamental concepts", "basic syntax">>
          [] expertise = "intermediate" -> <<"advanced techniques", "best practices">>
          [] expertise = "expert" -> <<"advanced concepts", "optimization">>
          [] OTHER -> <<"fundamental concepts", "practical applications">>,
     code_examples |-> <<"# ">> \o (IF topic = "" THEN <<>> ELSE <<topic>>)
                       \o <<" - ", expertise, " level tutorial">>,
     packages |->
        CASE expertise = "beginner" -> <<"base", "utils">>
          [] expertise = "intermediate" -> <<"base", "dplyr", "ggplot2">>
          [] expertise = "expert" -> <<"base", "tidyverse", "advanced packages">>
          [] OTHER -> <<"base">>,
     learning_objectives |-> <<"Master ">> \o (IF topic = "" THEN <<>> ELSE <<topic>>)
                             \o <<" fundamentals">>]

\* AITutorialGenerator._call_deepseek_api and _call_openai_api
call_deepseek_api(resp) ==
    LET r == chat_try_block(resp)
    IN IF r.raised THEN Ret(None) ELSE r

call_openai_api(resp) ==
    LET r == chat_try_block(resp)
    IN IF r.raised THEN Ret(None) ELSE r

\* AITutorialGenerator._create_comprehensive_prompt: the section seconds, int()
create_comprehensive_prompt(topic, expertise, duration) ==
    [topic |-> topic, expertise |-> expertise, duration |-> duration,
     intro_seconds |-> Min(60, (duration * 60 * 15) \div 100),
     core_seconds |-> (duration * 60 * 50) \div 100,
     examples_seconds |-> (duration * 60 * 25) \div 100,
     summary_seconds |-> (duration * 60 * 10) \div 100]

\* AITutorialGenerator._generate_enhanced_script
generate_enhanced_script(topic, expertise, duration, topic_data) ==
    Str(<<"# R Tutorial: ">> \o (IF topic = "" THEN <<>> ELSE <<topic>>)
        \o <<" (", expertise, " Level)", "[PAUSE] Welcome to this comprehensive tutorial">>
        \o topic_data.learning_objectives \o topic_data.concepts
        \o topic_data.code_examples \o topic_data.packages
        \o <<"Thank you for learning with R Tutor Pro">>)

\* AITutorialGenerator._generate_ai_script: what it returns and the provider
\* calls it makes, given which keys are set and what each provider would answer
generate_ai_script(topic, expertise, duration, topic_data, dkey, okey, dresp, oresp) ==
    LET prompt == create_comprehensive_prompt(topic, expertise, duration)
        dcall == [fn |-> "_call_deepseek_api", prompt |-> prompt, resp |-> dresp,
                  ret |-> call_deepseek_api(dresp)]
        ocall == [fn |-> "_call_openai_api", prompt |-> prompt, resp |-> oresp,
                  ret |-> call_openai_api(oresp)]
        template == generate_enhanced_script(topic, expertise, duration, topic_data)
    IN IF dkey
       THEN IF Truthy(dcall.ret.val)
            THEN [ret |-> Ret(dcall.ret.val), calls |-> <<dcall>>, via |-> "deepseek"]
            ELSE [ret |-> Ret(template), calls |-> <<dcall>>, via |-> "template"]
       ELSE IF okey
       THEN IF Truthy(ocall.ret.val)
            THEN [ret |-> Ret(ocall.ret.val), calls |-> <<ocall>>, via |-> "openai"]
            ELSE [ret |-> Ret(template), calls |-> <<ocall>>, via |-> "template"]
       ELSE [ret |-> Ret(template), calls |-> <<>>, via |-> "template"]

\* AITutorialGenerator._categorize_topic
ai_categorize_topic(topic) ==
    IF HasAny(topic, {"data frame", "vector", "list", "matrix", "structure"})
    THEN "data_structures"
    ELSE IF HasAny(topic, {"plot", "graph", "visual", "chart", "ggplot"})
    THEN "visualization"
    ELSE IF HasAny(topic, {"model", "regression", "machine learning", "statistic", "analysis"})
    THEN "modeling"
    ELSE IF HasAny(topic, {"function", "package", "library", "programming"})
    THEN "programming"
    ELSE IF HasAny(topic, {"dplyr", "tidyr", "wrangle", "clean", "transform"})
    THEN "data_wrangling"
    ELSE IF HasAny(topic, {"shiny", "web", "app", "dashboard", "interactive"})
    THEN "web_development"
    ELSE "general"

\* AITutorialGenerator._calculate_difficulty_score
calculate_difficulty_score(expertise, topic) ==
    IF difficulty_base(expertise).raised THEN Raise("KeyError")
    ELSE LET base == difficulty_base(expertise).val
             score == IF HasAny(topic, {"advanced", "machine learning", "neural",
                                        "bayesian", "optimization"})
                      THEN base + 2
                      ELSE IF HasAny(topic, {"basic", "intro", "fundamentals",
                                             "getting started"})
                      THEN base - 1 ELSE base
         IN Ret(Min(10, Max(1, score)))

\* AITutorialGenerator._get_fallback_content
get_fallback_content(topic, expertise, duration) ==
    [content |-> Str(<<"# R Tutorial: ">> \o (IF topic = "" THEN <<>> ELSE <<topic>>)
                     \o <<"Welcome to this tutorial", expertise,
                          "Thank you for using R Tutor Pro!">>),
     is_premium |-> TRUE,
     estimated_reading_time |-> Max(1, duration \div 2),
     difficulty_score |-> 5,
     topic_category |-> "general",
     via |-> "static_fallback"]

\* the try block of AITutorialGenerator.generate_tutorial_content
ai_generate_tutorial_content_try(topic, expertise, duration, dkey, okey, dresp, oresp) ==
    IF "all_topics" \notin R_TOPICS_CONTENT
    THEN [ret |-> Raise("KeyError"), calls |-> <<>>]
    ELSE LET topic_data == get_topic_data(topic, expertise)
             s == IF dkey \/ okey
                  THEN generate_ai_script(topic, expertise, duration, topic_data,
                                          dkey, okey, dresp, oresp)
                  ELSE [ret |-> Ret(generate_enhanced_script(topic, expertise, duration,
                                                              topic_data)),
                        calls |-> <<>>, via |-> "template"]
             score == calculate_difficulty_score(expertise, topic)
         IN IF s.ret.val.kind # "str" THEN [ret |-> Raise("AttributeError"), calls |-> s.calls]
            ELSE IF score.raised THEN [ret |-> Raise("KeyError"), calls |-> s.calls]
            ELSE [ret |-> Ret([content |-> s.ret.val,
                               is_premium |-> TRUE,
                               estimated_reading_time |-> Max(1, Len(s.ret.val.text) \div 200),
                               difficulty_score |-> score.val,
                               topic_category |-> ai_categorize_topic(topic),
                               via |-> s.via]),
                  calls |-> s.calls]

\* as ai_generate_tutorial_content, with the exception left to propagate
ai_generate_tutorial_content_uncaught(topic, expertise, duration, dkey, okey, dresp, oresp) ==
    ai_generate_tutorial_content_try(topic, expertise, duration, dkey, okey, dresp, oresp)

\* AITutorialGenerator.generate_tutorial_content
ai_generate_tutorial_content(topic, expertise, duration, dkey, okey, dresp, oresp) ==
    LET r == ai_generate_tutorial_content_try(topic, expertise, duration,
                                              dkey, okey, dresp, oresp)
    IN IF r.ret.raised
       THEN [ret |-> Ret(get_fallback_content(topic, expertise, duration)), calls |-> r.calls]
       ELSE r


-----------------------------------------------------------------------------
(* app.AudioGenerator *)

\* app.get_topic_content: the default content structure
get_topic_content(topic, expertise) ==
    [concepts |-> <<"fundamental concepts", "practical applications", "best practices">>,
     code_examples |-> <<"# example">>,
     packages |-> <<"base">>,
     learning_objectives |-> <<"Understanding fundamentals">>]

\* AudioGenerator._call_deepseek_api: the whole body is inside the try
app_call_deepseek_api(resp) ==
    LET r == chat_try_block(resp)
    IN IF r.raised THEN Ret(None) ELSE r

\* AudioGenerator._generate_local_script
generate_local_script(topic, expertise, duration, concepts, code_examples) ==
    Str(<<"Welcome to this R programming tutorial on ">>
        \o (IF topic = "" THEN <<>> ELSE <<topic>>)
        \o SubSeq(concepts, 1, Min(3, Len(concepts)))
        \o <<IF Len(code_examples) > 0 THEN code_examples[1]
             ELSE "# Example R code would be discussed here">>
        \o <<"Thank you for joining this R programming tutorial.">>)

\* AudioGenerator.generate_tutorial_script
generate_tutorial_script(topic, expertise, duration, content_data, resp) ==
    LET response == app_call_deepseek_api(resp)
    IN IF response.raised
       THEN Ret(generate_local_script(topic, expertise, duration,
                                      content_data.concepts, content_data.code_examples))
       ELSE IF Truthy(response.val) THEN Ret(response.val)
       ELSE Ret(generate_local_script(topic, expertise, duration,
                                      content_data.concepts, content_data.code_examples))

\* the keys of app.TTS_OPTIONS
TTS_OPTIONS == {"local_tts"}

tts_replacements ==
    [t \in {"[PAUSE]", "[EMPHASIS]", "ggplot2", "dplyr", "tidyr", "data.frame", "data.table"} |->
        CASE t = "[PAUSE]" -> ". "
          [] t = "[EMPHASIS]" -> ""
          [] t = "ggplot2" -> "g g plot two"
          [] t = "dplyr" -> "d ply r"
          [] t = "tidyr" -> "tidy r"
          [] t = "data.frame" -> "data frame"
          [] OTHER -> "data table"]

\* AudioGenerator._clean_text_for_tts ("" tokens vanish from the text)
clean_text_for_tts(text) ==
    SelectSeq(MapTokens(text, tts_replacements), LAMBDA t : t # "")

\* what the local speech engine (pyttsx3) does on one use
LocalEngineOutcomes == {"missing", "throws", "empty", "ok"}
\* what pydub does when asked for one second of silence as MP3
PydubOutcomes == {"missing", "throws", "ok"}

\* AudioGenerator._local_tts
local_tts(outcome) ==
    CASE outcome = "ok" -> Ret(Bytes(<<"wav audio">>))
      [] outcome = "empty" -> Ret(Bytes(<<>>))
      [] OTHER -> Ret(None)

\* AudioGenerator._openai_tts and _elevenlabs_tts
remote_tts(resp) ==
    LET r == audio_try_block(resp)
    IN IF r.raised THEN Ret(None) ELSE r

\* AudioGenerator._generate_audio_with_service
generate_audio_with_service(service, remote, local) ==
    IF service \in {"openai", "elevenlabs"}
    THEN IF service \notin TTS_OPTIONS THEN Raise("KeyError") ELSE remote_tts(remote)
    ELSE IF service = "local_tts" THEN local_tts(local)
    ELSE Ret(None)

\* AudioGenerator._generate_placeholder_audio
generate_placeholder_audio(pydub, local_again) ==
    IF pydub = "ok" THEN Ret(Bytes(<<"one second of silence, mp3">>))
    ELSE local_tts(local_again)

tts_services == <<"openai", "elevenlabs", "local_tts">>

\* AudioGenerator.text_to_speech: the loop from service i on, then the placeholder;
\* tiers lists what was attempted
RECURSIVE text_to_speech_from(_, _, _, _, _, _)
text_to_speech_from(i, remote, local, pydub, local_again, tiers) ==
    IF i > Len(tts_services)
    THEN [ret |-> generate_placeholder_audio(pydub, local_again),
          tiers |-> Append(tiers, "placeholder")]
    ELSE LET r == generate_audio_with_service(tts_services[i], remote, local)
             tried == Append(tiers, tts_services[i])
         IN IF ~r.raised /\ Truthy(r.val)
            THEN [ret |-> r, tiers |-> tried]
            ELSE text_to_speech_from(i + 1, remote, local, pydub, local_again, tried)

\* a text_to_speech that goes to the placeholder at once
text_to_speech_placeholder_first(text, remote, local, pydub, local_again) ==
    [ret |-> generate_placeholder_audio(pydub, local_again), tiers |-> <<"placeholder">>]

\* AudioGenerator.text_to_speech
text_to_speech(text, remote, local, pydub, local_again) ==
    text_to_speech_from(1, remote, local, pydub, local_again, <<>>)

-----------------------------------------------------------------------------
(* The web layer: form values and their conversions *)

\* one field of request.form (or of the JSON body)
Absent == [present |-> FALSE]
Field(s) == [present |-> TRUE, text |-> s]

\* request.form.get(name, default)
form_get(f, default) == IF f.present THEN f.text ELSE default

PyInt(n) == [kind |-> "int", n |-> n]

\* str.strip()
strip(s) ==
    CASE s = "  " -> ""
      [] s = " loops " -> "loops"
      [] s = " expert " -> "expert"
      [] s = " 5 " -> "5"
      [] OTHER -> s

\* str.lower()
lower(s) == CASE s = "TRUE" -> "true" [] s = "True" -> "true" [] OTHER -> s

\* html.escape()
html_escape(s) == CASE s = "<script>x" -> "&lt;script&gt;x" [] OTHER -> s

int_literals ==
    [s \in {"0", "-3", "1", "5", " 5 ", "60", "61"} |->
        CASE s = "0" -> 0 [] s = "-3" -> 0 - 3 [] s = "1" -> 1 [] s = "5" -> 5
          [] s = " 5 " -> 5 [] s = "60" -> 60 [] OTHER -> 61]

\* int(s) on a str
int_of(s) == IF s \in DOMAIN int_literals THEN Ret(int_literals[s]) ELSE Raise("ValueError")

\* float(s) on a str: the literal it read
float_of(s) == IF s \in {"0.5", "1", "1.5", " 5 ", "5"} THEN Ret(strip(s)) ELSE Raise("ValueError")

\* request.form.get(name, type=int): a failed conversion gives the default, None
form_get_int(f) ==
    IF ~f.present \/ int_of(f.text).raised THEN None ELSE PyInt(int_of(f.text).val)

\* utils.sanitize_input
sanitize_input(text, max_length) ==
    IF text = "" THEN ""
    ELSE LET escaped == html_escape(strip(text))
         IN IF TopicLen(escaped) > max_length
            THEN "a topic of 250 characters, cut at 200..."
            ELSE escaped

\* as validate_tutorial_input, with the upper limit of the duration exclusive
validate_tutorial_input_below_sixty(topic, expertise, duration) ==
    IF topic = "" \/ TopicLen(strip(topic)) < 2
    THEN <<FALSE, "Topic must be at least 2 characters long">>
    ELSE IF expertise \notin {"beginner", "intermediate", "expert"}
    THEN <<FALSE, "Invalid expertise level. Must be 'beginner', 'intermediate', or 'expert'">>
    ELSE IF duration.kind # "int" \/ duration.n < 1 \/ duration.n >= 60
    THEN <<FALSE, "Duration must be between 1 and 60 minutes">>
    ELSE IF TopicLen(strip(topic)) > 300
    THEN <<FALSE, "Topic must be less than 300 characters">>
    ELSE IF HasAny(topic, {"<script", "javascript:"})
    THEN <<FALSE, "Topic contains invalid characters">>
    ELSE <<TRUE, "">>

\* utils.validate_tutorial_input: <<is_valid, error_message>>
validate_tutorial_input(topic, expertise, duration) ==
    IF topic = "" \/ TopicLen(strip(topic)) < 2
    THEN <<FALSE, "Topic must be at least 2 characters long">>
    ELSE IF expertise \notin {"beginner", "intermediate", "expert"}
    THEN <<FALSE, "Invalid expertise level. Must be 'beginner', 'intermediate', or 'expert'">>
    ELSE IF duration.kind # "int" \/ duration.n < 1 \/ duration.n > 60
    THEN <<FALSE, "Duration must be between 1 and 60 minutes">>
    ELSE IF TopicLen(strip(topic)) > 300
    THEN <<FALSE, "Topic must be less than 300 characters">>
    ELSE IF HasAny(topic, {"<script", "javascript:"})
    THEN <<FALSE, "Topic contains invalid characters">>
    ELSE <<TRUE, "">>

\* len(t) of a token of text; the template sentences are all longer than 20
TokenLen(t) ==
    CASE t = "" -> 0
      [] t = " " -> 1
      [] t = "Finally" -> 7
      [] t = "And finally" -> 11
      [] t = "Note:" -> 5
      [] t = "Please note:" -> 12
      [] t = "ggplot2" -> 7
      [] OTHER -> 20

RECURSIVE TotalLen(_)
TotalLen(text) == IF text = <<>> THEN 0 ELSE TokenLen(Head(text)) + TotalLen(Tail(text))

\* len(text.strip())
StrippedLen(text) ==
    LET solid == {i \in 1..Len(text) : text[i] \notin {"", " "}}
    IN IF solid = {} THEN 0
       ELSE LET first == CHOOSE i \in solid : \A j \in solid : i <= j
                last == CHOOSE i \in solid : \A j \in solid : i >= j
            IN TotalLen(SubSeq(text, first, last))

-----------------------------------------------------------------------------
(* The web layer: decorators and the Tutorial table *)

Response(status, body) == [status |-> status, body |-> body]

\* the value of a part of the environment that the handler did not get to
NotConsulted == [kind |-> "not consulted"]

\* f"user_{current_user.id}"
UserClientId(n) == CASE n = 1 -> "user_1" [] n = 2 -> "user_2" [] OTHER -> "user_10"

\* key.startswith(client_id), for a key f"{client}_{timestamp}"
KeyStartsWith(client, client_id) ==
    \/ client = client_id
    \/ <<client_id, client>> \in {<<"user_1", "user_10">>, <<"1.2.3.4", "1.2.3.40">>}

\* utils.rate_limit: whether the request is admitted, and the storage it leaves
rate_limit(requests_per_minute, user, now, storage) ==
    LET client_id == IF ~user.is_authenticated THEN user.ip ELSE UserClientId(user.id)
        window_start == now - rate_limit_window * TicksPerSecond
        cleaned == {e \in storage : e.timestamp > window_start}
        client_requests == {e \in cleaned : KeyStartsWith(e.client, client_id)}
    IN IF Cardinality(client_requests) >= requests_per_minute * 2
       THEN [admitted |-> FALSE, storage |-> cleaned]
       ELSE [admitted |-> TRUE,
             storage |-> cleaned \cup {[client |-> client_id, timestamp |-> now]}]

\* utils.track_usage: the UsageLog table after the decorator's own code
track_usage(action, user, log) ==
    IF user.is_authenticated
    THEN Append(log, [user_id |-> user.id, action |-> action])
    ELSE log

\* User.get_monthly_usage for the current month: the log rows of the user whose
\* action is tutorial_created (every row of the model is of the current month)
get_monthly_usage(user, log) ==
    Cardinality({i \in DOMAIN log : log[i].user_id = user.id
                                      /\ log[i].action = "tutorial_created"})

\* models.Tutorial(...) as the routes construct it, once committed
Tutorial(id, user_id, topic, expertise, duration, content) ==
    [id |-> id, user_id |-> user_id, topic |-> topic, expertise |-> expertise,
     duration |-> duration, content |-> content, is_premium |-> TRUE,
     status |-> "completed", audio_url |-> None, audio_duration |-> None,
     audio_format |-> "mp3", view_count |-> 0]

-----------------------------------------------------------------------------
(* routes.py: POST /generate-tutorial *)

\* what the text provider answers to a request made by a route
WebChatResponses ==
    { [kind |-> "exception", exc |-> "Timeout"],
      [kind |-> "http", status |-> 500, body |-> InvalidBody],
      [kind |-> "http", status |-> 200, body |-> JsonBody(WellFormed(Str(<<>>)))],
      [kind |-> "http", status |-> 200, body |-> JsonBody(WellFormed(Str(<<" ">>)))],
      [kind |-> "http", status |-> 200, body |-> JsonBody(WellFormed(Str(<<"Finally">>)))] }

\* what the audio provider answers, and whether the file can be saved
WebAudioOutcomes ==
    { [resp |-> [kind |-> "exception", exc |-> "Timeout"], save_ok |-> TRUE],
      [resp |-> [kind |-> "http", status |-> 200, content |-> <<>>], save_ok |-> TRUE],
      [resp |-> [kind |-> "http", status |-> 200, content |-> <<"mp3 frames">>], save_ok |-> FALSE],
      [resp |-> [kind |-> "http", status |-> 200, content |-> <<"mp3 frames">>], save_ok |-> TRUE] }

\* the forms of POST /generate-tutorial: a well-formed one, and the same form
\* with one field, or every field, replaced
GenerateTutorialForms ==
    LET good == [topic |-> Field(" loops "), expertise |-> Field("beginner"),
                 duration |-> Field("1"), text_model |-> Absent,
                 generate_audio |-> Absent]
    IN {good}
       \cup {[good EXCEPT !.topic = t] :
                t \in {Absent, Field(""), Field("  "), Field("a"), Field("<script>x")}}
       \cup {[good EXCEPT !.expertise = e] :
                e \in {Absent, Field("guru"), Field(" expert ")}}
       \cup {[good EXCEPT !.duration = d] :
                d \in {Absent, Field("0"), Field("-3"), Field(" 5 "), Field("60"),
                       Field("61"), Field("abc"), Field("1.5")}}
       \cup {[good EXCEPT !.text_model = Field("openai/gpt-4o")],
             [good EXCEPT !.generate_audio = Field("TRUE")],
             [good EXCEPT !.topic = Field(""), !.expertise = Absent, !.duration = Field("0")]}

\* routes.generate_tutorial, "Get and validate input": what it reads from the form
generate_tutorial_input(form) ==
    LET topic == sanitize_input(form_get(form.topic, ""), 200)
        expertise == strip(form_get(form.expertise, ""))
        duration == form_get_int(form.duration)
    IN [topic |-> topic, expertise |-> expertise, duration |-> duration,
        text_model |-> strip(form_get(form.text_model, "")),
        generate_audio |-> lower(form_get(form.generate_audio, "false")) = "true",
        valid |-> validate_tutorial_input(topic, expertise, duration)]

\* routes.generate_tutorial from "Generate audio if requested" on: the tutorial
\* is committed, audio_result is what generate_audio returned (success False
\* where it was not asked for)
generate_tutorial_respond(input, tutorial_data, tutorial, text_call, audio_calls, audio_result, db, at) ==
    LET saved == IF audio_result.success
                 THEN [tutorial EXCEPT
                         !.audio_url = Str(audio_result.audio_url),
                         !.audio_duration = PyInt(audio_result.duration_estimate)]
                 ELSE tutorial
        response_data == [success |-> TRUE, tutorial_id |-> tutorial.id,
                          content |-> tutorial_data.content, topic |-> input.topic,
                          expertise |-> input.expertise, duration |-> tutorial.duration,
                          model_used |-> tutorial_data.model_used,
                          generated_via |-> tutorial_data.generated_via,
                          audio_generated |-> audio_result.success]
    IN [response |-> Response(200, IF audio_result.success
                                   THEN [audio_url |-> audio_result.audio_url]
                                        @@ response_data
                                   ELSE response_data),
        tutorials |-> Append(db, saved),
        calls |-> <<text_call>> \o audio_calls,
        clock |-> at, last_request_time |-> at]

\* routes.generate_tutorial from "Save tutorial to database" on; tutorial_data is
\* what generate_tutorial_content returned or raised, sent_at when it was sent
generate_tutorial_created(input, max_duration, tutorial_data, text_call, audio, db, sent_at) ==
    IF tutorial_data.raised
    THEN [response |-> Response(500, [success |-> FALSE,
                           error |-> "Tutorial generation failed. Please try again."]),
          tutorials |-> db, calls |-> <<text_call>>,
          clock |-> sent_at, last_request_time |-> sent_at]
    ELSE IF input.generate_audio /\ Truthy(Str(tutorial_data.val.content))
    THEN generate_tutorial_respond(input, tutorial_data.val,
             Tutorial(Len(db) + 1, 1, input.topic, input.expertise, max_duration,
                      tutorial_data.val.content),
             text_call,
             << [fn |-> "openrouter_service.generate_audio",
                 text |-> tutorial_data.val.content, model |-> default_audio_model] >>,
             generate_audio(tutorial_data.val.content, default_audio_model, "mp3",
                            audio.resp, audio.save_ok).val,
             db,
             rate_limit_wakeup(rate_limit_wakeup(sent_at, sent_at),
                               rate_limit_wakeup(sent_at, sent_at)))
    ELSE generate_tutorial_respond(input, tutorial_data.val,
             Tutorial(Len(db) + 1, 1, input.topic, input.expertise, max_duration,
                      tutorial_data.val.content),
             text_call, <<>>, [success |-> FALSE], db, sent_at)

\* routes.generate_tutorial from "Validate input" on
generate_tutorial_validated(input, chat, audio, db, now, last) ==
    IF ~input.valid[1]
    THEN [response |-> Response(400, [success |-> FALSE, error |-> input.valid[2]]),
          tutorials |-> db, calls |-> <<>>, clock |-> now, last_request_time |-> last]
    ELSE generate_tutorial_created(input, Min(input.duration.n, 60),
             generate_tutorial_content(input.topic, input.expertise,
                                       Min(input.duration.n, 60), "medium", chat),
             [fn |-> "openrouter_service.generate_tutorial_content",
              topic |-> input.topic, expertise |-> input.expertise,
              duration |-> Min(input.duration.n, 60),
              model |-> IF input.text_model # "" THEN input.text_model
                        ELSE default_text_model],
             audio, db, rate_limit_wakeup(now, last))

\* the body of routes.generate_tutorial: the response, the Tutorial table, the
\* calls into the generation pipeline and the service clock it leaves
generate_tutorial_view(form, chat, audio, db, now, last) ==
    generate_tutorial_validated(generate_tutorial_input(form), chat, audio, db, now, last)

-----------------------------------------------------------------------------
(* routes.py: POST /generate-audio/<tutorial_id> *)

\* what the handler finds on the machine: the pyttsx3 engine, pydub, the ffmpeg
\* and ffprobe binaries, the MP3 export and the exported file; "unused" is the
\* value of a part the handler did not get to
SpeechEnvs ==
    { e \in [engine : {"missing", "throws", "ok", "unused"},
             pydub : {"missing", "ok", "unused"},
             ffmpeg : {"found", "absent", "unused"},
             ffprobe : {"found", "absent", "unused"},
             convert : {"throws", "ok", "unused"},
             mp3_exists : {"yes", "no", "unused"}] :
        /\ (e.pydub = "unused") <=> (e.engine # "ok")
        /\ (e.ffmpeg = "unused") <=> (e.pydub # "ok")
        /\ (e.ffprobe = "unused") <=> (e.pydub # "ok")
        /\ (e.convert = "unused") <=> ~(e.ffmpeg = "found" /\ e.ffprobe = "found")
        /\ (e.mp3_exists = "unused") <=> (e.convert # "ok") }

SpeedFields == {Absent, Field(""), Field("1.5"), Field("fast")}

\* as serves_mp3, serving MP3 as soon as pydub could be imported
serves_mp3_without_codec(e) == e.pydub = "ok"

\* routes.generate_audio with the WAV file written: whether
\* `mp3_conversion_success and mp3_path.exists()` holds
serves_mp3(e) ==
    LET mp3_conversion_success ==
            /\ e.pydub = "ok"
            /\ e.ffmpeg = "found" /\ e.ffprobe = "found"
            /\ e.convert = "ok"
    IN mp3_conversion_success /\ e.mp3_exists = "yes"

\* the body of routes.generate_audio: the response, the Tutorial table and the
\* use it made of the speech engine
generate_audio_view(tutorial_id, speed, e, db) ==
    IF tutorial_id \notin DOMAIN db
    THEN [response |-> Response(404, [error |-> "Not Found"]),
          tutorials |-> db, calls |-> <<>>]
    ELSE
    LET tutorial == db[tutorial_id]
        audio_speed == IF speed.present /\ speed.text # ""
                       THEN float_of(speed.text) ELSE Ret("1.0")
        failed(calls_made) ==
            [response |-> Response(500, [success |-> FALSE,
                                         error |-> "Audio generation failed",
                                         tutorial_id |-> tutorial_id]),
             tutorials |-> db, calls |-> calls_made]
        engine_call == [fn |-> "pyttsx3", rate |-> audio_speed.val]
    IN IF ~Truthy(Str(tutorial.content)) \/ StrippedLen(tutorial.content) < 10
       THEN [response |-> Response(400, [success |-> FALSE,
                 error |-> "Tutorial content is too short for audio generation"]),
             tutorials |-> db, calls |-> <<>>]
       ELSE IF audio_speed.raised THEN failed(<<>>)
       ELSE IF e.engine # "ok" THEN failed(<<engine_call>>)
       ELSE
       LET as_mp3 == serves_mp3(e)
           audio_url == IF as_mp3
                        THEN <<"/static/generated_audio/", "tts_uuid4hex", ".mp3">>
                        ELSE <<"/static/generated_audio/", "tts_uuid4hex", ".wav">>
           audio_format == IF as_mp3 THEN "mp3" ELSE "wav"
           message == IF as_mp3 THEN "Audio generated successfully as MP3!"
                      ELSE "Audio generated as WAV (MP3 conversion not available)."
           saved == [tutorial EXCEPT
                       !.audio_url = Str(audio_url),
                       !.audio_duration =
                           PyInt(Max(1, (Len(tutorial.content) * 60) \div 150))]
       IN [response |-> Response(200, [success |-> TRUE, message |-> message,
                                       audio_url |-> audio_url,
                                       format |-> audio_format]),
           tutorials |-> [db EXCEPT ![tutorial_id] = saved],
           calls |-> <<engine_call>>]

-----------------------------------------------------------------------------
(* routes.py: the tutorial API, /api/tutorials and /api/tutorial/<id> *)

\* the sessions that send API requests
ApiRequesters == {AnonymousUser, LoggedIn(1), LoggedIn(2)}

\* what db.session.commit() does
CommitOutcomes == {"ok", "raises"}

\* the place of a row that db.session.delete removed
DeletedRow == [deleted |-> TRUE]

\* the table without its last rows where they are deleted: the next insert
\* gets the largest id in use plus one (an INTEGER PRIMARY KEY of SQLite)
RECURSIVE compact(_)
compact(db) ==
    IF db # <<>> /\ db[Len(db)] = DeletedRow THEN compact(SubSeq(db, 1, Len(db) - 1))
    ELSE db

\* flask_login.login_required: the answer to a session that is not logged in
\* (login_manager.login_view is set: a redirect to the login page)
login_required(user) == Response(302, [location |-> "auth.login"])

\* Tutorial.query.get_or_404(tutorial_id) finds a row
tutorial_exists(tutorial_id, db) == tutorial_id \in DOMAIN db /\ db[tutorial_id] # DeletedRow

\* Tutorial.to_dict()
to_dict(tutorial) ==
    [id |-> tutorial.id, topic |-> tutorial.topic, expertise |-> tutorial.expertise,
     duration |-> tutorial.duration, content |-> tutorial.content,
     is_premium |-> TRUE, audio_url |-> tutorial.audio_url,
     audio_duration |-> tutorial.audio_duration, view_count |-> tutorial.view_count,
     status |-> tutorial.status]

\* routes.get_tutorial
get_tutorial(tutorial_id, user, db) ==
    IF ~user.is_authenticated THEN [response |-> login_required(user), tutorials |-> db]
    ELSE IF ~tutorial_exists(tutorial_id, db)
    THEN [response |-> Response(404, [error |-> "Not Found"]), tutorials |-> db]
    ELSE IF db[tutorial_id].user_id # user.id
    THEN [response |-> Response(403, [error |-> "Access denied"]), tutorials |-> db]
    ELSE [response |-> Response(200, to_dict(db[tutorial_id])), tutorials |-> db]

\* a delete_tutorial that asks for no ownership
delete_tutorial_of_anyone(tutorial_id, user, db, commit) ==
    IF ~user.is_authenticated THEN [response |-> login_required(user), tutorials |-> db]
    ELSE IF ~tutorial_exists(tutorial_id, db)
    THEN [response |-> Response(404, [error |-> "Not Found"]), tutorials |-> db]
    ELSE [response |-> Response(200, [success |-> TRUE,
                                      message |-> "Tutorial deleted successfully"]),
          tutorials |-> compact([db EXCEPT ![tutorial_id] = DeletedRow])]

\* routes.delete_tutorial
delete_tutorial(tutorial_id, user, db, commit) ==
    IF ~user.is_authenticated THEN [response |-> login_required(user), tutorials |-> db]
    ELSE IF ~tutorial_exists(tutorial_id, db)
    THEN [response |-> Response(404, [error |-> "Not Found"]), tutorials |-> db]
    ELSE IF db[tutorial_id].user_id # user.id
    THEN [response |-> Response(403, [error |-> "Access denied"]), tutorials |-> db]
    ELSE IF commit = "raises"
    THEN [response |-> Response(500, [success |-> FALSE, error |-> "Delete failed"]),
          tutorials |-> db]
    ELSE [response |-> Response(200, [success |-> TRUE,
                                      message |-> "Tutorial deleted successfully"]),
          tutorials |-> compact([db EXCEPT ![tutorial_id] = DeletedRow])]

\* routes.track_tutorial_view
track_tutorial_view(tutorial_id, user, db, commit) ==
    IF ~user.is_authenticated THEN [response |-> login_required(user), tutorials |-> db]
    ELSE IF ~tutorial_exists(tutorial_id, db)
    THEN [response |-> Response(404, [error |-> "Not Found"]), tutorials |-> db]
    ELSE IF db[tutorial_id].user_id # user.id
    THEN [response |-> Response(403, [error |-> "Access denied"]), tutorials |-> db]
    ELSE IF commit = "raises"
    THEN [response |-> Response(500, [success |-> FALSE, error |-> "OperationalError"]),
          tutorials |-> db]
    ELSE [response |-> Response(200, [success |-> TRUE]),
          tutorials |-> [db EXCEPT ![tutorial_id].view_count = @ + 1]]

\* the rows that Tutorial.query.filter_by(user_id=...) selects from db[i..], the
\* newest first
RECURSIVE filter_by_user_id(_, _, _)
filter_by_user_id(db, user_id, i) ==
    IF i > Len(db) THEN <<>>
    ELSE IF db[i] # DeletedRow /\ db[i].user_id = user_id
    THEN filter_by_user_id(db, user_id, i + 1) \o <<db[i]>>
    ELSE filter_by_user_id(db, user_id, i + 1)

\* routes.list_tutorials, first page
list_tutorials(user, db) ==
    IF ~user.is_authenticated THEN [response |-> login_required(user), tutorials |-> db]
    ELSE LET items == filter_by_user_id(db, user.id, 1)
         IN [response |-> Response(200, [tutorials |-> [k \in DOMAIN items |-> to_dict(items[k])],
                                         total |-> Len(items)]),
             tutorials |-> db]

-----------------------------------------------------------------------------
(* app.py: POST /submit; routes.py: admin POST /test-generation/text *)

SubmitForms ==
    LET good == [topic |-> Field("loops"), expertise |-> Field("beginner"),
                 duration |-> Field("5"), speed |-> Absent]
    IN {good}
       \cup {[good EXCEPT !.topic = t] : t \in {Absent, Field(""), Field("  ")}}
       \cup {[good EXCEPT !.expertise = e] : e \in {Absent, Field("guru")}}
       \cup {[good EXCEPT !.duration = d] :
                d \in {Absent, Field("0"), Field("-3"), Field(" 5 "), Field("61"),
                       Field("abc")}}
       \cup {[good EXCEPT !.speed = v] : v \in {Field("1.5"), Field("fast")}}

\* what DeepSeek answers to the request of /submit
SubmitChatResponses ==
    { [kind |-> "exception", exc |-> "Timeout"],
      [kind |-> "http", status |-> 200, body |-> JsonBody(WellFormed(NonStr))],
      [kind |-> "http", status |-> 200, body |-> JsonBody(WellFormed(Str(<<"Finally">>)))] }

\* the speech tiers as /submit finds them; "unused" as in SpeechEnvs
SubmitSpeechEnvs ==
    { e \in [local : LocalEngineOutcomes \cup {"unused"},
             pydub : PydubOutcomes \cup {"unused"},
             local_again : LocalEngineOutcomes \cup {"unused"}] :
        /\ e.local = "unused" => e.pydub = "unused"
        /\ e.local # "unused" => ((e.pydub = "unused") <=> (e.local = "ok"))
        /\ (e.local_again = "unused") <=> (e.pydub \in {"ok", "unused"})
        /\ e.local_again # "unused" =>
              ((e.local = "missing") <=> (e.local_again = "missing")) }

\* app.submit_form, "Get form data" and "Validate input": what it reads from
\* the form, and whether the request goes on to the generation pipeline
submit_form_input(form) ==
    LET topic == strip(form_get(form.topic, ""))
        expertise == strip(form_get(form.expertise, ""))
        duration == strip(form_get(form.duration, "5"))
        speed == IF form.speed.present THEN float_of(form.speed.text) ELSE Ret("1.0")
    IN [topic |-> topic, expertise |-> expertise, duration |-> duration,
        speed |-> speed,
        filled |-> ~(topic = "" \/ expertise = ""),
        accepted |-> /\ ~speed.raised
                     /\ ~(topic = "" \/ expertise = "")
                     /\ ~int_of(duration).raised]

\* the body of app.submit_form: the response, the calls into the pipeline, and
\* whether the speech tiers were used
submit_form_view(form, deepseek, e) ==
    LET input == submit_form_input(form)
        topic == input.topic
        expertise == input.expertise
        duration == input.duration
        failed(error, calls_made) ==
            [response |-> Response(500, [success |-> FALSE, error |-> error]),
             calls |-> calls_made, spoke |-> FALSE]
    IN IF input.speed.raised THEN failed("ValueError", <<>>)
       ELSE IF ~input.filled
       THEN [response |-> Response(400, [success |-> FALSE,
                              error |-> "Please fill in all required fields"]),
             calls |-> <<>>, spoke |-> FALSE]
       ELSE IF int_of(duration).raised THEN failed("ValueError", <<>>)
       ELSE
       LET content_data == get_topic_content(topic, expertise)
           tutorial_script == generate_tutorial_script(topic, expertise,
                                  int_of(duration).val, content_data, deepseek).val
           script_call == [fn |-> "audio_generator.generate_tutorial_script",
                           topic |-> topic, expertise |-> expertise,
                           duration |-> int_of(duration).val]
           speech_call == [fn |-> "audio_generator.text_to_speech"]
       IN IF tutorial_script.kind # "str"
          THEN failed("AttributeError", <<script_call, speech_call>>)
          ELSE
          LET audio_data == text_to_speech(clean_text_for_tts(tutorial_script.text),
                                NotConsulted, e.local, e.pydub, e.local_again).ret.val
          IN IF Truthy(audio_data)
             THEN [response |-> Response(200, [success |-> TRUE,
                                    audio_content |-> tutorial_script.text,
                                    topic |-> topic, expertise |-> expertise,
                                    duration |-> duration,
                                    audio_available |-> TRUE]),
                   calls |-> <<script_call, speech_call>>, spoke |-> TRUE]
             ELSE [response |-> Response(500, [success |-> FALSE,
                                                error |-> "UnboundLocalError"]),
                   calls |-> <<script_call, speech_call>>, spoke |-> TRUE]

\* the JSON bodies of POST /test-generation/text: the 'topic' key
TestGenerationTopics == {Absent, Field(""), Field("  "), Field(" loops ")}

\* the body of routes.test_text_generation
test_text_generation_view(topic_field, chat, now, last) ==
    LET topic == strip(form_get(topic_field, "R Data Structures"))
        sent_at == rate_limit_wakeup(now, last)
        tutorial_data == generate_tutorial_content(topic, "beginner", 5, "medium", chat)
        text_call == [fn |-> "openrouter_service.generate_tutorial_content",
                      topic |-> topic, expertise |-> "beginner", duration |-> 5,
                      model |-> default_text_model]
    IN [response |->
            IF tutorial_data.raised
            THEN Response(200, [success |-> FALSE, error |-> tutorial_data.exc])
            ELSE IF Truthy(Str(tutorial_data.val.content))
            THEN Response(200, [success |-> TRUE,
                                message |-> "Text generation successful!",
                                content |-> tutorial_data.val.content,
                                model_used |-> tutorial_data.val.model_used])
            ELSE Response(200, [success |-> FALSE,
                                error |-> "Text generation returned empty content."]),
        calls |-> <<text_call>>, clock |-> sent_at, last_request_time |-> sent_at]

-----------------------------------------------------------------------------
(* routes._prepare_text_for_audio. A text is the sequence of its characters;
   "(bullet)", "(apostrophe)" and "(backtick)" stand for the one character
   U+2022, U+0027 and U+0060. *)

Whitespace == {" ", "\n", "\t"}
Digits == {"0", "1", "2", "3", "4", "5", "6", "7", "8", "9"}

\* s has pat at index i
StartsAt(s, i, pat) ==
    /\ i + Len(pat) - 1 <= Len(s)
    /\ SubSeq(s, i, i + Len(pat) - 1) = pat

\* str.find(pat, i): the least index from i on where pat occurs, 0 if none
RECURSIVE Find(_, _, _)
Find(s, pat, i) ==
    IF i + Len(pat) - 1 > Len(s) THEN 0
    ELSE IF StartsAt(s, i, pat) THEN i
    ELSE Find(s, pat, i + 1)

\* the first index from i on whose character is outside S (Len(s) + 1 if none)
RECURSIVE RunEnd(_, _, _)
RunEnd(s, i, S) ==
    IF i <= Len(s) /\ s[i] \in S THEN RunEnd(s, i + 1, S) ELSE i

\* the first index from i on whose character is in S (Len(s) + 1 if none)
RECURSIVE RunEndNot(_, _, _)
RunEndNot(s, i, S) ==
    IF i <= Len(s) /\ s[i] \notin S THEN RunEndNot(s, i + 1, S) ELSE i

\* the last index up to i whose character is outside S (0 if none)
RECURSIVE RunBegin(_, _, _)
RunBegin(s, i, S) ==
    IF i >= 1 /\ s[i] \in S THEN RunBegin(s, i - 1, S) ELSE i

\* str.strip()
str_strip(s) == SubSeq(s, RunEnd(s, 1, Whitespace), RunBegin(s, Len(s), Whitespace))

\* str.split('\n')
RECURSIVE split_lines(_)
split_lines(s) ==
    LET k == RunEndNot(s, 1, {"\n"})
    IN IF k > Len(s) THEN <<s>>
       ELSE <<SubSeq(s, 1, k - 1)>> \o split_lines(SubSeq(s, k + 1, Len(s)))

\* str.replace(old, new) from index i on
RECURSIVE str_replace_from(_, _, _, _)
str_replace_from(s, old, new, i) ==
    IF i > Len(s) THEN <<>>
    ELSE IF StartsAt(s, i, old) THEN new \o str_replace_from(s, old, new, i + Len(old))
    ELSE <<s[i]>> \o str_replace_from(s, old, new, i + 1)

str_replace(s, old, new) == str_replace_from(s, old, new, 1)

\* ^ under re.MULTILINE
LineStart(s, i) == i = 1 \/ s[i - 1] = "\n"

NoNewline(s, a, b) == \A k \in a..b : s[k] # "\n"

fence == <<"(backtick)", "(backtick)", "(backtick)">>
fence_r == <<"(backtick)", "(backtick)", "(backtick)", "r", "\n">>
fence_close == <<"\n", "(backtick)", "(backtick)", "(backtick)">>

\* replace_code_block(match), code being match.group(1)
replace_code_block(code) ==
    LET IsCodeLine(line) == str_strip(line) # <<>> /\ str_strip(line)[1] # "#"
        kept == SelectSeq(split_lines(str_strip(code)), IsCodeLine)
        lines == [k \in DOMAIN kept |-> str_strip(kept[k])]
    IN IF lines # <<>>
       THEN <<"H", "e", "r", "e", "(apostrophe)", "s", " ", "t", "h", "e", " ", "R", " ", "c", "o", "d", "e", ":", " ">>
            \o (IF Len(lines) >= 2 THEN lines[1] \o <<",", " ">> \o lines[2] ELSE lines[1])
            \o <<".", ".", ".", " ", "a", "n", "d", " ", "s", "o", " ", "o", "n", ".">>
       ELSE <<"H", "e", "r", "e", "(apostrophe)", "s", " ", "s", "o", "m", "e", " ", "R", " ", "c", "o", "d", "e", ".">>

\* the regular expressions of _prepare_text_for_audio, in the order applied
Patterns ==
    << "header", "fence_r", "fence", "inline_code", "bullet", "numbered", "bold",
       "italic", "link", "blank_lines", "newlines", "spaces" >>

\* where the match of the pattern that starts at index i ends (the index after
\* its last character), 0 if the pattern does not match at i
match_end(re, s, i) ==
    CASE re = "header" ->       \* ^#{1,6}\s+
           LET h == RunEnd(s, i, {"#"})
               w == RunEnd(s, h, Whitespace)
           IN IF LineStart(s, i) /\ h - i \in 1..6 /\ w > h THEN w ELSE 0
      [] re = "fence_r" ->      \* BBBr\n(.*?)\nBBB  DOTALL, B the backtick
           LET j == Find(s, fence_close, i + 5)
           IN IF StartsAt(s, i, fence_r) /\ j > 0 THEN j + 4 ELSE 0
      [] re = "fence" ->        \* BBB(.*?)BBB  DOTALL
           LET j == Find(s, fence, i + 3)
           IN IF StartsAt(s, i, fence) /\ j > 0 THEN j + 3 ELSE 0
      [] re = "inline_code" ->  \* B([^B]+)B
           LET k == RunEndNot(s, i + 1, {"(backtick)"})
           IN IF s[i] = "(backtick)" /\ k > i + 1 /\ k <= Len(s) THEN k + 1 ELSE 0
      [] re = "bullet" ->       \* ^\s*[-*+]\s+
           LET q == RunEnd(s, i, Whitespace)
               w == RunEnd(s, q + 1, Whitespace)
           IN IF LineStart(s, i) /\ q <= Len(s) /\ s[q] \in {"-", "*", "+"} /\ w > q + 1
              THEN w ELSE 0
      [] re = "numbered" ->     \* ^\s*\d+\.\s+
           LET q == RunEnd(s, i, Whitespace)
               d == RunEnd(s, q, Digits)
               w == RunEnd(s, d + 1, Whitespace)
           IN IF LineStart(s, i) /\ d > q /\ d <= Len(s) /\ s[d] = "." /\ w > d + 1
              THEN w ELSE 0
      [] re = "bold" ->         \* \*\*(.*?)\*\*
           LET j == Find(s, <<"*", "*">>, i + 2)
           IN IF StartsAt(s, i, <<"*", "*">>) /\ j > 0 /\ NoNewline(s, i + 2, j - 1)
              THEN j + 2 ELSE 0
      [] re = "italic" ->       \* \*(.*?)\*
           LET j == Find(s, <<"*">>, i + 1)
           IN IF s[i] = "*" /\ j > 0 /\ NoNewline(s, i + 1, j - 1) THEN j + 1 ELSE 0
      [] re = "link" ->         \* \[([^\]]+)\]\([^)]+\)
           LET k == RunEndNot(s, i + 1, {"]"})
               m == RunEndNot(s, k + 2, {")"})
           IN IF s[i] = "[" /\ k > i + 1 /\ StartsAt(s, k, <<"]", "(">>)
                 /\ m > k + 2 /\ m <= Len(s)
              THEN m + 1 ELSE 0
      [] re = "blank_lines" ->  \* \n\s*\n\s*\n+
           LET w == RunEnd(s, i, Whitespace)
               newlines == {k \in i..(w - 1) : s[k] = "\n"}
           IN IF s[i] = "\n" /\ Cardinality(newlines) >= 3
              THEN (CHOOSE k \in newlines : \A l \in newlines : l <= k) + 1 ELSE 0
      [] re = "newlines" ->     \* \n+
           IF s[i] = "\n" THEN RunEnd(s, i, {"\n"}) ELSE 0
      [] re = "spaces" ->       \* \s+
           IF s[i] \in Whitespace THEN RunEnd(s, i, Whitespace) ELSE 0

\* what re.sub puts in place of the match s[i..e-1]
replacement(re, s, i, e) ==
    CASE re = "header" -> <<>>
      [] re = "fence_r" -> replace_code_block(SubSeq(s, i + 5, e - 5))
      [] re = "fence" -> replace_code_block(SubSeq(s, i + 3, e - 4))
      [] re = "inline_code" -> SubSeq(s, i + 1, e - 2)
      [] re = "bullet" -> <<"(bullet)", " ">>
      [] re = "numbered" -> <<>>
      [] re = "bold" -> SubSeq(s, i + 2, e - 3)
      [] re = "italic" -> SubSeq(s, i + 1, e - 2)
      [] re = "link" -> SubSeq(s, i + 1, RunEndNot(s, i + 1, {"]"}) - 1)
      [] re = "blank_lines" -> <<"\n", "\n">>
      [] re = "newlines" -> <<" ">>
      [] re = "spaces" -> <<" ">>

\* re.sub(pattern, repl, s) from index i on: leftmost matches, not overlapping
RECURSIVE re_sub_from(_, _, _)
re_sub_from(re, s, i) ==
    IF i > Len(s) THEN <<>>
    ELSE IF match_end(re, s, i) > 0
    THEN replacement(re, s, i, match_end(re, s, i)) \o re_sub_from(re, s, match_end(re, s, i))
    ELSE <<s[i]>> \o re_sub_from(re, s, i + 1)

re_sub(re, s) == re_sub_from(re, s, 1)

\* steps 1 to 7: the substitutions Patterns[k..], applied in order
RECURSIVE strip_markdown(_, _)
strip_markdown(s, k) ==
    IF k > Len(Patterns) THEN s ELSE strip_markdown(re_sub(Patterns[k], s), k + 1)

pause == <<".", ".", ".", " ">>

\* step 8: a pause after sentences, exclamations, questions and colons
add_pauses(s) ==
    str_replace(str_replace(str_replace(str_replace(s,
        <<".", " ">>, <<".", " ">> \o pause),
        <<"!", " ">>, <<"!", " ">> \o pause),
        <<"?", " ">>, <<"?", " ">> \o pause),
        <<":", " ">>, <<":", " ">> \o pause)

\* step 9: pronunciation_map, in dict order
speech_pronunciation_map ==
    << << <<"g", "g", "p", "l", "o", "t", "2">>,
          <<"G", " ", "G", " ", "p", "l", "o", "t", " ", "2">> >>,
       << <<"d", "p", "l", "y", "r">>,
          <<"D", " ", "p", "l", "i", "e", "r">> >>,
       << <<"t", "i", "d", "y", "r">>,
          <<"t", "i", "d", "y", " ", "R">> >>,
       << <<"%", ">", "%">>,
          <<"p", "i", "p", "e", " ", "o", "p", "e", "r", "a", "t", "o", "r">> >>,
       << <<"d", "a", "t", "a", ".", "f", "r", "a", "m", "e">>,
          <<"d", "a", "t", "a", " ", "f", "r", "a", "m", "e">> >>,
       << <<"R", " ", "p", "r", "o", "g", "r", "a", "m", "m", "i", "n", "g">>,
          <<"R", " ", "p", "r", "o", "g", "r", "a", "m", "m", "i", "n", "g">> >>,
       << <<"R", "S", "t", "u", "d", "i", "o">>,
          <<"R", " ", "S", "t", "u", "d", "i", "o">> >> >>

RECURSIVE pronounce(_, _)
pronounce(s, k) ==
    IF k > Len(speech_pronunciation_map) THEN s
    ELSE pronounce(str_replace(s, speech_pronunciation_map[k][1],
                               speech_pronunciation_map[k][2]), k + 1)

TerminalPunctuation == {".", "!", "?"}

\* an ending that only strips
end_properly_unpunctuated(s) == str_strip(s)

\* step 10: text.strip(), and a final . unless it ends with . ! or ?
end_properly(s) ==
    LET text == str_strip(s)
    IN IF text # <<>> /\ text[Len(text)] \in TerminalPunctuation
       THEN text ELSE text \o <<".">>

prepare_text_for_audio(content) ==
    end_properly(pronounce(add_pauses(strip_markdown(content, 1)), 1))

\* pieces of markdown that the tutorial content is made of
MarkdownPieces ==
    { <<"a">>, <<" ">>, <<".">>, <<"\n">>, <<"#">>, <<"(backtick)">>, <<"*">>, <<"?">>,
      fence, fence_r, fence_close,
      <<"#", " ">>, <<"-", " ">>, <<"1", ".", " ">>, <<":", " ">>,
      <<"[", "a", "]", "(", "b", ")">>, <<"d", "p", "l", "y", "r">>,
      <<"x">>, <<"#", " ", "x">> }

\* the texts made of at most n pieces
RECURSIVE TextsOfPieces(_)
TextsOfPieces(n) ==
    IF n = 0 THEN {<<>>}
    ELSE TextsOfPieces(n - 1)
         \cup {p \o t : p \in MarkdownPieces, t \in TextsOfPieces(n - 1)}

SpeechTexts == TextsOfPieces(MaxPieces)

-----------------------------------------------------------------------------
(* Operations *)

Idle == [op |-> "idle"]

\* one call of openrouter_service.generate_tutorial_content(...)
GenerateTutorialContent ==
    /\ phase = "idle"
    /\ clock <= Epoch + MaxClock
    /\ \E topic \in SvcTopics, expertise \in Expertises, duration \in Durations,
          text_model \in TextModels, content_length \in ContentLengths,
          resp \in ChatResponses :
         LET sent_at == rate_limit_wakeup(clock, last_request_time)
             model == IF text_model # "" THEN text_model ELSE default_text_model
         IN /\ phase' = "generate_tutorial_content"
            /\ args' = [topic |-> topic, expertise |-> expertise, duration |-> duration,
                        text_model |-> text_model, content_length |-> content_length]
            /\ env' = [chat |-> resp]
            /\ calls' = << [fn |-> "_call_openrouter_chat", model |-> model,
                            prompt |-> create_tutorial_prompt(topic, expertise, duration),
                            at |-> sent_at, resp |-> resp,
                            ret |-> call_openrouter_chat(resp)] >>
            /\ result' = generate_tutorial_content(topic, expertise, duration,
                                                   content_length, resp)
            /\ clock' = sent_at
            /\ last_request_time' = sent_at
    /\ UNCHANGED webVars /\ UNCHANGED <<ai_last_request_time, deepseek_key, openai_key, threads, openrouter>>

\* one call of openrouter_service.generate_audio(...)
GenerateAudio ==
    /\ phase = "idle"
    /\ clock <= Epoch + MaxClock
    /\ \E text \in ScriptTexts, audio_model \in {"", "elevenlabs/v2"},
          resp \in AudioResponses, save_ok \in BOOLEAN :
         LET model == IF audio_model # "" THEN audio_model ELSE default_audio_model
             first == rate_limit_wakeup(clock, last_request_time)
             sent_at == rate_limit_wakeup(first, first)
         IN /\ phase' = "generate_audio"
            /\ args' = [text |-> text, audio_model |-> audio_model, format |-> "mp3"]
            /\ env' = [audio |-> resp, save_ok |-> save_ok]
            /\ calls' = << [fn |-> "_call_openrouter_audio", model |-> model,
                            at |-> sent_at, resp |-> resp,
                            ret |-> call_openrouter_audio(resp)] >>
            /\ result' = generate_audio(text, model, "mp3", resp, save_ok)
            /\ clock' = sent_at
            /\ last_request_time' = sent_at
    /\ UNCHANGED webVars /\ UNCHANGED <<ai_last_request_time, deepseek_key, openai_key, threads, openrouter>>

\* what the two text providers of aiservices would answer: one of them over
\* every response, the other over the principal outcomes
ProviderAnswers ==
    LET few == { [kind |-> "exception", exc |-> "Timeout"],
                 [kind |-> "http", status |-> 200,
                  body |-> JsonBody(WellFormed(Str(<<"Finally">>)))],
                 [kind |-> "http", status |-> 500, body |-> InvalidBody] }
    IN { [deepseek |-> a, openai |-> b] : a \in ChatResponses, b \in few }
       \cup { [deepseek |-> a, openai |-> b] : a \in few, b \in ChatResponses }

\* one call of ai_generator.generate_tutorial_content(...)
AIGenerateTutorialContent ==
    /\ phase = "idle"
    /\ clock <= Epoch + MaxClock
    /\ \E topic \in AITopics, expertise \in Expertises, duration \in AIDurations,
          answers \in ProviderAnswers :
         LET r == ai_generate_tutorial_content(topic, expertise, duration,
                      deepseek_key, openai_key, answers.deepseek, answers.openai)
             entered == "all_topics" \in R_TOPICS_CONTENT /\ (deepseek_key \/ openai_key)
             woke == rate_limit_wakeup(clock, ai_last_request_time)
         IN /\ phase' = "ai_generate_tutorial_content"
            /\ args' = [topic |-> topic, expertise |-> expertise, duration |-> duration]
            /\ env' = answers
            /\ calls' = r.calls
            /\ result' = r.ret
            /\ clock' = IF entered THEN woke ELSE clock
            /\ ai_last_request_time' = IF entered THEN woke ELSE ai_last_request_time
    /\ UNCHANGED webVars /\ UNCHANGED <<last_request_time, deepseek_key, openai_key, threads, openrouter>>

\* one call of ai_generator._generate_ai_script(...)
AIGenerateAiScript ==
    /\ phase = "idle"
    /\ clock <= Epoch + MaxClock
    /\ \E topic \in AITopics, expertise \in Expertises, duration \in AIDurations,
          answers \in ProviderAnswers :
         LET r == generate_ai_script(topic, expertise, duration,
                      get_topic_data(topic, expertise),
                      deepseek_key, openai_key, answers.deepseek, answers.openai)
             woke == rate_limit_wakeup(clock, ai_last_request_time)
         IN /\ phase' = "generate_ai_script"
            /\ args' = [topic |-> topic, expertise |-> expertise, duration |-> duration]
            /\ env' = answers
            /\ calls' = r.calls
            /\ result' = [raised |-> FALSE, val |-> r.ret.val, via |-> r.via]
            /\ clock' = woke
            /\ ai_last_request_time' = woke
    /\ UNCHANGED webVars /\ UNCHANGED <<last_request_time, deepseek_key, openai_key, threads, openrouter>>

\* one call of audio_generator.generate_tutorial_script(...)
GenerateTutorialScript ==
    /\ phase = "idle"
    /\ \E topic \in AITopics, expertise \in Expertises, duration \in AIDurations,
          resp \in ChatResponses :
         /\ phase' = "generate_tutorial_script"
         /\ args' = [topic |-> topic, expertise |-> expertise, duration |-> duration]
         /\ env' = [deepseek |-> resp]
         /\ calls' = << [fn |-> "AudioGenerator._call_deepseek_api", resp |-> resp,
                         ret |-> app_call_deepseek_api(resp)] >>
         /\ result' = generate_tutorial_script(topic, expertise, duration,
                          get_topic_content(topic, expertise), resp)
    /\ UNCHANGED webVars /\ UNCHANGED <<clock, last_request_time, ai_last_request_time, deepseek_key, openai_key, threads, openrouter>>

\* one call of audio_generator.text_to_speech(...)
TextToSpeech ==
    /\ phase = "idle"
    /\ \E text \in ScriptTexts, remote \in AudioResponses,
          local \in LocalEngineOutcomes, local_again \in LocalEngineOutcomes,
          pydub \in PydubOutcomes :
         /\ (local = "missing") <=> (local_again = "missing")
         /\ LET r == text_to_speech(clean_text_for_tts(text), remote, local, pydub, local_again)
            IN /\ phase' = "text_to_speech"
               /\ args' = [text |-> text]
               /\ env' = [remote |-> remote, local |-> local, local_again |-> local_again,
                          pydub |-> pydub]
               /\ calls' = r.tiers
               /\ result' = r.ret
    /\ UNCHANGED webVars /\ UNCHANGED <<clock, last_request_time, ai_last_request_time, deepseek_key, openai_key, threads, openrouter>>

\* one POST /generate-tutorial, through rate_limit, track_usage and the view
RouteGenerateTutorial ==
    /\ phase = "idle"
    /\ application = "routes"
    /\ clock <= Epoch + MaxClock
    /\ current_user.is_authenticated => Len(usage_log) < MaxUsageLog
    /\ \E form \in GenerateTutorialForms :
       \E chat \in IF generate_tutorial_input(form).valid[1]
                    THEN WebChatResponses ELSE {NotConsulted} :
       \E audio \in IF generate_tutorial_input(form).valid[1]
                        /\ generate_tutorial_input(form).generate_audio
                     THEN WebAudioOutcomes ELSE {NotConsulted} :
         LET limited == rate_limit(generate_tutorial_rpm, current_user, clock,
                                   rate_limit_storage)
             r == generate_tutorial_view(form, chat, audio, tutorials, clock,
                                         last_request_time)
         IN /\ Len(r.tutorials) <= MaxTutorials
            /\ phase' = "route_generate_tutorial"
            /\ args' = [form |-> form, user |-> current_user]
            /\ env' = [chat |-> chat, audio |-> audio]
            /\ rate_limit_storage' = limited.storage
            /\ IF ~limited.admitted
               THEN /\ result' = Response(429, [success |-> FALSE,
                                      error |-> "Rate limit exceeded. Please try again later."])
                    /\ calls' = <<>>
                    /\ UNCHANGED <<usage_log, tutorials, clock, last_request_time>>
               ELSE /\ usage_log' = track_usage("tutorial_created", current_user, usage_log)
                    /\ result' = r.response
                    /\ calls' = r.calls
                    /\ tutorials' = r.tutorials
                    /\ clock' = r.clock
                    /\ last_request_time' = r.last_request_time
    /\ UNCHANGED <<ai_last_request_time, deepseek_key, openai_key, current_user, application,
                   threads, openrouter>>

\* one POST /generate-audio/<tutorial_id>, through rate_limit and the view
RouteGenerateAudio ==
    /\ phase = "idle"
    /\ application = "routes"
    /\ \E tutorial_id \in 1..(MaxTutorials + 1), speed \in SpeedFields, e \in SpeechEnvs :
         LET limited == rate_limit(generate_audio_rpm, current_user, clock,
                                   rate_limit_storage)
             r == generate_audio_view(tutorial_id, speed, e, tutorials)
         IN /\ (e.engine = "unused") <=> (r.calls = <<>>)
            /\ phase' = "route_generate_audio"
            /\ args' = [tutorial_id |-> tutorial_id, speed |-> speed, user |-> current_user]
            /\ env' = e
            /\ rate_limit_storage' = limited.storage
            /\ IF ~limited.admitted
               THEN /\ result' = Response(429, [success |-> FALSE,
                                      error |-> "Rate limit exceeded. Please try again later."])
                    /\ calls' = <<>>
                    /\ UNCHANGED tutorials
               ELSE /\ result' = r.response
                    /\ calls' = r.calls
                    /\ tutorials' = r.tutorials
    /\ UNCHANGED <<clock, last_request_time, ai_last_request_time, deepseek_key,
                   openai_key, usage_log, current_user, application, threads, openrouter>>

\* one POST /submit of app.py
RouteSubmit ==
    /\ phase = "idle"
    /\ application = "app"
    /\ \E form \in SubmitForms, e \in SubmitSpeechEnvs :
       \E deepseek \in IF submit_form_input(form).accepted
                        THEN SubmitChatResponses ELSE {NotConsulted} :
         LET r == submit_form_view(form, deepseek, e)
         IN /\ (e.local = "unused") <=> ~r.spoke
            /\ phase' = "route_submit"
            /\ args' = [form |-> form]
            /\ env' = [deepseek |-> deepseek, speech |-> e]
            /\ calls' = r.calls
            /\ result' = r.response
    /\ UNCHANGED webVars
    /\ UNCHANGED <<clock, last_request_time, ai_last_request_time, deepseek_key, openai_key, threads, openrouter>>

\* one POST /test-generation/text of the admin API
RouteTestTextGeneration ==
    /\ phase = "idle"
    /\ application = "routes"
    /\ clock <= Epoch + MaxClock
    /\ \E topic_field \in TestGenerationTopics, chat \in WebChatResponses :
         LET r == test_text_generation_view(topic_field, chat, clock, last_request_time)
         IN /\ phase' = "route_test_text_generation"
            /\ args' = [topic |-> topic_field]
            /\ env' = [chat |-> chat]
            /\ result' = r.response
            /\ calls' = r.calls
            /\ clock' = r.clock
            /\ last_request_time' = r.last_request_time
    /\ UNCHANGED webVars
    /\ UNCHANGED <<ai_last_request_time, deepseek_key, openai_key, threads, openrouter>>

\* what an API request leaves alone
ApiUnchanged ==
    UNCHANGED <<clock, last_request_time, ai_last_request_time, deepseek_key, openai_key,
                rate_limit_storage, usage_log, current_user, application, calls, threads, openrouter>>

\* one GET /api/tutorial/<tutorial_id>
GetTutorial ==
    /\ phase = "idle"
    /\ \E tutorial_id \in 1..(MaxTutorials + 1) :
         LET r == get_tutorial(tutorial_id, current_user, tutorials)
         IN /\ phase' = "get_tutorial"
            /\ args' = [tutorial_id |-> tutorial_id, user |-> current_user, db |-> tutorials]
            /\ env' = Idle
            /\ result' = r.response
            /\ tutorials' = r.tutorials
    /\ ApiUnchanged

\* one DELETE /api/tutorial/<tutorial_id>
DeleteTutorial ==
    /\ phase = "idle"
    /\ \E tutorial_id \in 1..(MaxTutorials + 1), commit \in CommitOutcomes :
         LET r == delete_tutorial(tutorial_id, current_user, tutorials, commit)
         IN /\ phase' = "delete_tutorial"
            /\ args' = [tutorial_id |-> tutorial_id, user |-> current_user, db |-> tutorials]
            /\ env' = [commit |-> commit]
            /\ result' = r.response
            /\ tutorials' = r.tutorials
    /\ ApiUnchanged

\* one POST /api/tutorial/<tutorial_id>/view
TrackTutorialView ==
    /\ phase = "idle"
    /\ \E tutorial_id \in 1..(MaxTutorials + 1), commit \in CommitOutcomes :
         LET r == track_tutorial_view(tutorial_id, current_user, tutorials, commit)
         IN /\ \A i \in DOMAIN r.tutorials :
                  r.tutorials[i] # DeletedRow => r.tutorials[i].view_count <= MaxViews
            /\ phase' = "track_tutorial_view"
            /\ args' = [tutorial_id |-> tutorial_id, user |-> current_user, db |-> tutorials]
            /\ env' = [commit |-> commit]
            /\ result' = r.response
            /\ tutorials' = r.tutorials
    /\ ApiUnchanged

\* one GET /api/tutorials
ListTutorials ==
    /\ phase = "idle"
    /\ LET r == list_tutorials(current_user, tutorials)
       IN /\ phase' = "list_tutorials"
          /\ args' = [user |-> current_user, db |-> tutorials]
          /\ env' = Idle
          /\ result' = r.response
          /\ tutorials' = r.tutorials
    /\ ApiUnchanged

\* one call of _prepare_text_for_audio(content)
PrepareTextForAudio ==
    /\ phase = "speech text"
    /\ phase' = "prepared for audio"
    /\ result' = prepare_text_for_audio(args.content)
    /\ UNCHANGED webVars
    /\ UNCHANGED <<clock, last_request_time, ai_last_request_time, deepseek_key, openai_key,
                   args, env, calls, threads, openrouter>>

\* time passes between requests
Tick ==
    /\ phase = "idle"
    /\ clock < Epoch + MaxClock
    /\ clock' = clock + 1
    /\ UNCHANGED webVars /\ UNCHANGED <<last_request_time, ai_last_request_time, deepseek_key, openai_key,
                   phase, args, env, calls, result, threads, openrouter>>

\* the caller takes the result; the service is ready for the next call
Respond ==
    /\ phase # "idle"
    /\ phase' = "idle"
    /\ args' = Idle /\ env' = Idle /\ calls' = <<>> /\ result' = Idle
    /\ UNCHANGED webVars /\ UNCHANGED <<clock, last_request_time, ai_last_request_time, deepseek_key, openai_key, threads, openrouter>>

-----------------------------------------------------------------------------
(* Request threads inside the rate limiter (the development server runs
   threaded=True; the services are module-level singletons) *)

Threads == {1, 2}

\* the services whose rate limiter the request threads share
Services == {"openrouter_service", "ai_generator"}

\* a thread that is outside the rate limiter, having sent n requests
ThreadOutside(n) ==
    [pc |-> "outside", service |-> "", current_time |-> 0, wake |-> 0, seen |-> 0,
     requests |-> n]

NoThreads == [t \in Threads |-> ThreadOutside(0)]

\* self.last_request_time of the service
stamp_of(service) ==
    IF service = "openrouter_service" THEN last_request_time ELSE ai_last_request_time

\* a rate limiter that never asks for a sleep
rate_limit_sleep_none(current_time, last) == 0

\* the argument of time.sleep in _rate_limit (0: no sleep)
rate_limit_sleep(current_time, last) ==
    IF current_time - last < min_request_interval * TicksPerSecond
    THEN min_request_interval * TicksPerSecond - (current_time - last)
    ELSE 0

\* current_time = time.time()
RateLimitEnter(t) ==
    /\ threads[t].pc = "outside"
    /\ threads[t].requests < MaxThreadRequests
    /\ \E service \in Services :
         threads' = [threads EXCEPT ![t] = [@ EXCEPT !.pc = "entered", !.service = service,
                                                     !.current_time = clock]]
    /\ UNCHANGED <<clock, last_request_time, ai_last_request_time, calls>>

\* time_since_last = current_time - self.last_request_time, and the decision
\* to sleep
RateLimitCompare(t) ==
    /\ threads[t].pc = "entered"
    /\ LET seen == stamp_of(threads[t].service)
           sleep == rate_limit_sleep(threads[t].current_time, seen)
       IN threads' = [threads EXCEPT ![t] =
                        [@ EXCEPT !.pc = IF sleep > 0 THEN "sleeping" ELSE "awake",
                                  !.seen = seen,
                                  !.wake = IF sleep > 0 THEN clock + sleep ELSE 0]]
    /\ UNCHANGED <<clock, last_request_time, ai_last_request_time, calls>>

\* time.sleep returns, no earlier than asked
RateLimitWake(t) ==
    /\ threads[t].pc = "sleeping"
    /\ clock >= threads[t].wake
    /\ threads' = [threads EXCEPT ![t] = [@ EXCEPT !.pc = "awake", !.wake = 0]]
    /\ UNCHANGED <<clock, last_request_time, ai_last_request_time, calls>>

\* self.last_request_time = time.time(), and the request goes out
RateLimitStampAndSend(t) ==
    /\ threads[t].pc = "awake"
    /\ IF threads[t].service = "openrouter_service"
       THEN last_request_time' = clock /\ UNCHANGED ai_last_request_time
       ELSE ai_last_request_time' = clock /\ UNCHANGED last_request_time
    /\ calls' = Append(calls, [fn |-> "outbound request", service |-> threads[t].service,
                               thread |-> t, at |-> clock, seen |-> threads[t].seen])
    /\ threads' = [threads EXCEPT ![t] = ThreadOutside(threads[t].requests + 1)]
    /\ UNCHANGED clock

\* time passes while request threads run
ThreadTick ==
    /\ clock < Epoch + MaxClock
    /\ clock' = clock + 1
    /\ UNCHANGED <<last_request_time, ai_last_request_time, calls, threads>>

-----------------------------------------------------------------------------
(* One client of a route behind utils.rate_limit *)

\* the requests_per_minute the routes are decorated with
DecoratedRates == {generate_audio_rpm, generate_tutorial_rpm}

WindowTicks == rate_limit_window * TicksPerSecond

\* one request of current_user to the decorated route; datetime.now() has
\* moved on by the next request
LimitedRequest ==
    /\ phase = "rate limited route"
    /\ clock < Epoch + 2 * WindowTicks
    /\ LET r == rate_limit(args.requests_per_minute, current_user, clock, rate_limit_storage)
       IN /\ rate_limit_storage' = r.storage
          /\ result' = [admitted |-> r.admitted, at |-> clock,
                        status |-> IF r.admitted THEN 200 ELSE 429]
    /\ clock' = clock + 1
    /\ UNCHANGED <<last_request_time, ai_last_request_time, deepseek_key, openai_key,
                   tutorials, usage_log, current_user, application,
                   phase, args, env, calls, threads, openrouter>>

\* the client stays away for half a window or a whole one
LimiterWait ==
    /\ phase = "rate limited route"
    /\ \E d \in {WindowTicks \div 2, WindowTicks} :
         /\ clock + d <= Epoch + 2 * WindowTicks
         /\ clock' = clock + d
    /\ UNCHANGED webVars
    /\ UNCHANGED <<last_request_time, ai_last_request_time, deepseek_key, openai_key,
                   phase, args, env, calls, result, threads, openrouter>>

-----------------------------------------------------------------------------
(* The shared OpenRouterService: credentials, get_model_status and the admin
   route POST /test-openrouter, run by request threads *)

\* OpenRouterService.__init__, OPENROUTER_API_KEY being set
OpenRouterService ==
    [api_key |-> "sk-or-real", site_url |-> "http://localhost:5000",
     site_name |-> "R Tutor Pro",
     model_status_cache |-> None, model_status_cache_time |-> 0]

\* the api_key, site_url and site_name of the service
credentials(service) ==
    [api_key |-> service.api_key, site_url |-> service.site_url,
     site_name |-> service.site_name]

\* the service with other credentials
with_credentials(service, c) ==
    [service EXCEPT !.api_key = c.api_key, !.site_url = c.site_url,
                    !.site_name = c.site_name]

\* what POST /test-openrouter is sent: a key the provider accepts, one it does not
TestCredentials ==
    { [api_key |-> "sk-or-test", site_url |-> "https://a.example", site_name |-> "A"],
      [api_key |-> "sk-or-wrong", site_url |-> "https://b.example", site_name |-> "B"] }

\* the keys the provider accepts
ValidKeys == {"sk-or-real", "sk-or-test"}

\* what the provider answers to GET /models sent with the key
StatusAnswers(api_key) ==
    { [kind |-> "exception", exc |-> "Timeout"],
      IF api_key \in ValidKeys THEN [kind |-> "http", status |-> 200, model_count |-> 2]
      ELSE [kind |-> "http", status |-> 401, model_count |-> 0] }

\* get_model_status, "Return cached result if still valid": the test
cache_is_valid(service, current_time) ==
    /\ service.model_status_cache # None
    /\ current_time - service.model_status_cache_time < cache_duration * TicksPerSecond

\* OpenRouterService.get_model_status at current_time, answer being what the
\* provider says if it is asked: the status returned, the service it leaves and
\* the request it made
get_model_status(service, current_time, answer) ==
    IF cache_is_valid(service, current_time)
    THEN [status |-> service.model_status_cache, service |-> service, calls |-> <<>>]
    ELSE LET status ==
                 IF answer.kind = "exception"
                 THEN [status |-> "error", error |-> answer.exc, model_count |-> 0,
                       api_key_valid |-> FALSE, last_check |-> current_time]
                 ELSE IF answer.status = 200
                 THEN [status |-> "connected", error |-> "",
                       model_count |-> answer.model_count,
                       api_key_valid |-> TRUE, last_check |-> current_time]
                 ELSE [status |-> "error", error |-> "HTTP 401", model_count |-> 0,
                       api_key_valid |-> FALSE, last_check |-> current_time]
         IN [status |-> status,
             service |-> [service EXCEPT !.model_status_cache = status,
                                         !.model_status_cache_time = current_time],
             calls |-> << [fn |-> "GET /models", api_key |-> service.api_key,
                           at |-> current_time, answer |-> answer] >>]

\* test_openrouter_connection: the JSON it answers for the status it got
test_openrouter_response(status) ==
    IF status.status = "connected"
    THEN [success |-> TRUE, message |-> "Connection successful!",
          model_count |-> status.model_count]
    ELSE [success |-> FALSE, error |-> status.error]

\* a request thread that is not inside test_openrouter_connection, having run
\* n tests
TestOutside(n) == [pc |-> "outside", tests |-> n]

\* the provider is asked only when the cache does not answer
AnswersFor(service, current_time) ==
    IF cache_is_valid(service, current_time)
    THEN {NotConsulted} ELSE StatusAnswers(service.api_key)

\* original_api_key = openrouter_service.api_key, and the two lines after it
TestOpenrouterSave(t) ==
    /\ threads[t].pc = "outside"
    /\ threads[t].tests < MaxTests
    /\ \E supplied \in TestCredentials :
         threads' = [threads EXCEPT ![t] =
                        [pc |-> "saved", tests |-> threads[t].tests,
                         supplied |-> supplied, original |-> credentials(openrouter)]]
    /\ UNCHANGED <<clock, calls, result, openrouter>>

\* openrouter_service.api_key = api_key, and the two lines after it
TestOpenrouterSwap(t) ==
    /\ threads[t].pc = "saved"
    /\ openrouter' = with_credentials(openrouter, threads[t].supplied)
    /\ threads' = [threads EXCEPT ![t].pc = "swapped"]
    /\ UNCHANGED <<clock, calls, result>>

\* status = openrouter_service.get_model_status() and the answer built from it
TestOpenrouterStatus(t) ==
    /\ threads[t].pc = "swapped"
    /\ \E answer \in AnswersFor(openrouter, clock) :
         LET r == get_model_status(openrouter, clock, answer)
         IN /\ Len(calls) + Len(r.calls) <= MaxStatusRequests
            /\ openrouter' = r.service
            /\ calls' = calls \o r.calls
            /\ clock' = clock + Len(r.calls)
            /\ threads' = [threads EXCEPT ![t] =
                   [pc |-> "checked", tests |-> threads[t].tests,
                    supplied |-> threads[t].supplied, original |-> threads[t].original,
                    status |-> r.status,
                    response |-> Response(200, test_openrouter_response(r.status))]]
    /\ UNCHANGED result

\* finally: the credentials are set back to the saved ones, the answer is sent
TestOpenrouterRevert(t) ==
    /\ threads[t].pc = "checked"
    /\ openrouter' = with_credentials(openrouter, threads[t].original)
    /\ result' = [route |-> "test_openrouter_connection", thread |-> t,
                  supplied |-> threads[t].supplied, status |-> threads[t].status,
                  response |-> threads[t].response]
    /\ threads' = [threads EXCEPT ![t] = TestOutside(threads[t].tests + 1)]
    /\ UNCHANGED <<clock, calls>>

\* one GET /api/openrouter/status of a logged-in user
OpenrouterStatus ==
    /\ \E answer \in AnswersFor(openrouter, clock) :
         LET r == get_model_status(openrouter, clock, answer)
         IN /\ Len(calls) + Len(r.calls) <= MaxStatusRequests
            /\ openrouter' = r.service
            /\ calls' = calls \o r.calls
            /\ clock' = clock + Len(r.calls)
            /\ result' = [route |-> "openrouter_status",
                          api_key |-> openrouter.api_key,
                          tests_running |-> {t \in Threads : threads[t].pc # "outside"},
                          status |-> r.status,
                          response |-> Response(200, r.status)]
    /\ UNCHANGED threads

\* time passes until the cached status is stale
StatusCacheExpires ==
    /\ cache_is_valid(openrouter, clock)
    /\ clock' = openrouter.model_status_cache_time + cache_duration * TicksPerSecond
    /\ UNCHANGED <<calls, result, threads, openrouter>>

-----------------------------------------------------------------------------
(* The prompt builders, for every duration that validation lets through *)

\* the durations validate_tutorial_input accepts
ValidDurations == 1..60

\* one call of OpenRouterService._create_tutorial_prompt
CreateTutorialPrompt ==
    /\ phase = "prompt input"
    /\ phase' = "_create_tutorial_prompt"
    /\ result' = create_tutorial_prompt(args.topic, args.expertise, args.duration)
    /\ UNCHANGED webVars
    /\ UNCHANGED <<clock, last_request_time, ai_last_request_time, deepseek_key, openai_key,
                   args, env, calls, threads, openrouter>>

\* one call of AITutorialGenerator._create_comprehensive_prompt
CreateComprehensivePrompt ==
    /\ phase = "prompt input"
    /\ phase' = "_create_comprehensive_prompt"
    /\ result' = create_comprehensive_prompt(args.topic, args.expertise, args.duration)
    /\ UNCHANGED webVars
    /\ UNCHANGED <<clock, last_request_time, ai_last_request_time, deepseek_key, openai_key,
                   args, env, calls, threads, openrouter>>

-----------------------------------------------------------------------------
(* Two clients behind utils.rate_limit *)

\* pairs of clients that send requests to the same application: two users, two
\* users of whom one id begins with the other, two addresses likewise
ClientPairs ==
    { <<LoggedIn(1), LoggedIn(2)>>,
      <<LoggedIn(1), LoggedIn(10)>>,
      <<AnonymousUser, [is_authenticated |-> FALSE, ip |-> "1.2.3.40"]>> }

\* client_id as rate_limit computes it
client_id_of(user) == IF ~user.is_authenticated THEN user.ip ELSE UserClientId(user.id)

\* one request of the current client to a route behind rate_limit
ClientRequest ==
    /\ phase = "two clients"
    /\ Len(calls) < MaxClientRequests
    /\ LET r == rate_limit(args.requests_per_minute, current_user, clock, rate_limit_storage)
       IN /\ rate_limit_storage' = r.storage
          /\ result' = [admitted |-> r.admitted, at |-> clock,
                        status |-> IF r.admitted THEN 200 ELSE 429]
    /\ calls' = Append(calls, client_id_of(current_user))
    /\ clock' = clock + 1
    /\ UNCHANGED <<last_request_time, ai_last_request_time, deepseek_key, openai_key,
                   tutorials, usage_log, current_user, application,
                   phase, args, env, threads, openrouter>>

\* the next request comes from the other client
OtherClient ==
    /\ phase = "two clients"
    /\ env.changes < MaxSessionChanges
    /\ env' = [changes |-> env.changes + 1]
    /\ current_user' = IF current_user = args.clients[1] THEN args.clients[2]
                       ELSE args.clients[1]
    /\ UNCHANGED <<clock, last_request_time, ai_last_request_time, deepseek_key, openai_key,
                   tutorials, rate_limit_storage, usage_log, application,
                   phase, args, calls, result, threads, openrouter>>

Init ==
    /\ clock = Epoch
    /\ last_request_time = 0
    /\ ai_last_request_time = 0
    /\ deepseek_key \in BOOLEAN
    /\ openai_key \in BOOLEAN
    /\ phase = "idle"
    /\ args = Idle /\ env = Idle /\ calls = <<>> /\ result = Idle
    /\ tutorials = <<>>
    /\ rate_limit_storage = {}
    /\ usage_log = <<>>
    /\ current_user = AnonymousUser
    /\ application = "routes"
    /\ threads = NoThreads
    /\ openrouter = OpenRouterService

InitWeb ==
    /\ clock = Epoch
    /\ last_request_time = 0
    /\ ai_last_request_time = 0
    /\ deepseek_key = FALSE
    /\ openai_key = FALSE
    /\ phase = "idle"
    /\ args = Idle /\ env = Idle /\ calls = <<>> /\ result = Idle
    /\ tutorials = <<>>
    /\ rate_limit_storage = {}
    /\ usage_log = <<>>
    /\ application \in {"app", "routes"}
    /\ current_user \in IF application = "app" THEN {AnonymousUser} ELSE Requesters
    /\ threads = NoThreads
    /\ openrouter = OpenRouterService

Next ==
    \/ GenerateTutorialContent
    \/ GenerateAudio
    \/ AIGenerateTutorialContent
    \/ AIGenerateAiScript
    \/ GenerateTutorialScript
    \/ TextToSpeech
    \/ Tick
    \/ Respond

Spec == Init /\ [][Next]_vars

NextWeb ==
    \/ RouteGenerateTutorial
    \/ RouteGenerateAudio
    \/ RouteSubmit
    \/ RouteTestTextGeneration
    \/ Respond

SpecWeb == InitWeb /\ [][NextWeb]_vars

InitThreads ==
    /\ clock = Epoch
    /\ last_request_time = 0
    /\ ai_last_request_time = 0
    /\ deepseek_key = FALSE
    /\ openai_key = FALSE
    /\ phase = "concurrent requests"
    /\ args = Idle /\ env = Idle /\ calls = <<>> /\ result = Idle
    /\ tutorials = <<>>
    /\ rate_limit_storage = {}
    /\ usage_log = <<>>
    /\ current_user = AnonymousUser
    /\ application = "routes"
    /\ threads = NoThreads
    /\ openrouter = OpenRouterService

NextThreads ==
    \/ \E t \in Threads :
         /\ \/ RateLimitEnter(t)
            \/ RateLimitCompare(t)
            \/ RateLimitWake(t)
            \/ RateLimitStampAndSend(t)
         /\ UNCHANGED webVars
         /\ UNCHANGED <<deepseek_key, openai_key, phase, args, env, result, openrouter>>
    \/ /\ ThreadTick
       /\ UNCHANGED webVars
       /\ UNCHANGED <<deepseek_key, openai_key, phase, args, env, result, openrouter>>

SpecThreads == InitThreads /\ [][NextThreads]_vars

InitSpeech ==
    /\ clock = Epoch
    /\ last_request_time = 0
    /\ ai_last_request_time = 0
    /\ deepseek_key = FALSE
    /\ openai_key = FALSE
    /\ phase = "speech text"
    /\ \E content \in SpeechTexts : args = [content |-> content]
    /\ env = Idle /\ calls = <<>> /\ result = Idle
    /\ tutorials = <<>>
    /\ rate_limit_storage = {}
    /\ usage_log = <<>>
    /\ current_user = AnonymousUser
    /\ application = "routes"
    /\ threads = NoThreads
    /\ openrouter = OpenRouterService

NextSpeech == PrepareTextForAudio

SpecSpeech == InitSpeech /\ [][NextSpeech]_vars

InitLimiter ==
    /\ clock = Epoch
    /\ last_request_time = 0
    /\ ai_last_request_time = 0
    /\ deepseek_key = FALSE
    /\ openai_key = FALSE
    /\ phase = "rate limited route"
    /\ \E n \in DecoratedRates : args = [requests_per_minute |-> n]
    /\ env = Idle /\ calls = <<>>
    /\ result = [admitted |-> FALSE, at |-> 0, status |-> 0]
    /\ tutorials = <<>>
    /\ rate_limit_storage = {}
    /\ usage_log = <<>>
    /\ current_user \in Requesters
    /\ application = "routes"
    /\ threads = NoThreads
    /\ openrouter = OpenRouterService

NextLimiter == LimitedRequest \/ LimiterWait

SpecLimiter == InitLimiter /\ [][NextLimiter]_vars

InitApi ==
    /\ clock = Epoch
    /\ last_request_time = 0
    /\ ai_last_request_time = 0
    /\ deepseek_key = FALSE
    /\ openai_key = FALSE
    /\ phase = "idle"
    /\ args = Idle /\ env = Idle /\ calls = <<>> /\ result = Idle
    /\ tutorials = <<>>
    /\ rate_limit_storage = {}
    /\ usage_log = <<>>
    /\ application = "routes"
    /\ current_user \in ApiRequesters
    /\ threads = NoThreads
    /\ openrouter = OpenRouterService

NextApi ==
    \/ RouteGenerateTutorial
    \/ GetTutorial
    \/ DeleteTutorial
    \/ TrackTutorialView
    \/ ListTutorials
    \/ Respond

SpecApi == InitApi /\ [][NextApi]_vars

InitClients ==
    /\ clock = Epoch
    /\ last_request_time = 0
    /\ ai_last_request_time = 0
    /\ deepseek_key = FALSE
    /\ openai_key = FALSE
    /\ phase = "two clients"
    /\ \E n \in DecoratedRates, pair \in ClientPairs :
         /\ args = [requests_per_minute |-> n, clients |-> pair]
         /\ current_user \in {pair[1], pair[2]}
    /\ env = [changes |-> 0]
    /\ calls = <<>>
    /\ result = [admitted |-> FALSE, at |-> 0, status |-> 0]
    /\ tutorials = <<>>
    /\ rate_limit_storage = {}
    /\ usage_log = <<>>
    /\ application = "routes"
    /\ threads = NoThreads
    /\ openrouter = OpenRouterService

NextClients == ClientRequest \/ OtherClient

SpecClients == InitClients /\ [][NextClients]_vars

InitAdmin ==
    /\ clock = Epoch
    /\ last_request_time = 0
    /\ ai_last_request_time = 0
    /\ deepseek_key = FALSE
    /\ openai_key = FALSE
    /\ phase = "admin"
    /\ args = Idle /\ env = Idle /\ calls = <<>> /\ result = Idle
    /\ tutorials = <<>>
    /\ rate_limit_storage = {}
    /\ usage_log = <<>>
    /\ current_user = LoggedIn(1)
    /\ application = "routes"
    /\ threads = [t \in Threads |-> TestOutside(0)]
    /\ openrouter = OpenRouterService

NextAdmin ==
    \/ \E t \in Threads :
         /\ \/ TestOpenrouterSave(t)
            \/ TestOpenrouterSwap(t)
            \/ TestOpenrouterStatus(t)
            \/ TestOpenrouterRevert(t)
         /\ UNCHANGED webVars
         /\ UNCHANGED <<last_request_time, ai_last_request_time, deepseek_key, openai_key,
                        phase, args, env>>
    \/ /\ \/ OpenrouterStatus
          \/ StatusCacheExpires
       /\ UNCHANGED webVars
       /\ UNCHANGED <<last_request_time, ai_last_request_time, deepseek_key, openai_key,
                      phase, args, env>>

SpecAdmin == InitAdmin /\ [][NextAdmin]_vars

InitPrompts ==
    /\ clock = Epoch
    /\ last_request_time = 0
    /\ ai_last_request_time = 0
    /\ deepseek_key = FALSE
    /\ openai_key = FALSE
    /\ phase = "prompt input"
    /\ \E duration \in ValidDurations, expertise \in ValidExpertise :
         args = [topic |-> "loops", expertise |-> expertise, duration |-> duration]
    /\ env = Idle /\ calls = <<>> /\ result = Idle
    /\ tutorials = <<>>
    /\ rate_limit_storage = {}
    /\ usage_log = <<>>
    /\ current_user = AnonymousUser
    /\ application = "routes"
    /\ threads = NoThreads
    /\ openrouter = OpenRouterService

NextPrompts == CreateTutorialPrompt \/ CreateComprehensivePrompt

SpecPrompts == InitPrompts /\ [][NextPrompts]_vars

-----------------------------------------------------------------------------
(* Properties *)

TextNonEmpty(text) == \E i \in 1..Len(text) : text[i] # ""

ValidGenerationRequest ==
    /\ args.topic # ""
    /\ args.expertise \in ValidExpertise
    /\ args.duration \in 1..60

\* C1: for every valid request and every outcome of the provider call,
\* generate_tutorial_content returns (does not raise) a result whose content is
\* non-empty and whose generated_via is 'openrouter' or 'enhanced_fallback'.
C1_ContentNonEmptyKnownSource ==
    (phase = "generate_tutorial_content" /\ ValidGenerationRequest) =>
        /\ ~result.raised
        /\ TextNonEmpty(result.val.content)
        /\ result.val.generated_via \in {"openrouter", "enhanced_fallback"}

\* a valid request answered 200 with an empty completion, served by the template
C1_Witness ==
    /\ phase = "generate_tutorial_content"
    /\ ValidGenerationRequest
    /\ env.chat = [kind |-> "http", status |-> 200, body |-> JsonBody(WellFormed(Str(<<>>)))]
    /\ ~result.raised
    /\ result.val.generated_via = "enhanced_fallback"

\* the texts the provider calls of the pending operation returned
SuccessfulProviderTexts == { calls[i].ret.val : i \in {j \in DOMAIN calls : Truthy(calls[j].ret.val)} }

\* C2: whatever keys are configured and whichever providers fail,
\* AITutorialGenerator.generate_tutorial_content and
\* AudioGenerator.generate_tutorial_script return (never raise), and what they
\* return was produced by a successful provider call or by the local template.
C2_NeverRaisesEndsAtProviderOrTemplate ==
    /\ phase = "ai_generate_tutorial_content" =>
         /\ ~result.raised
         /\ result.val.content \in
              SuccessfulProviderTexts
              \cup {generate_enhanced_script(args.topic, args.expertise, args.duration,
                        get_topic_data(args.topic, args.expertise)),
                    get_fallback_content(args.topic, args.expertise, args.duration).content}
    /\ phase = "generate_tutorial_script" =>
         /\ ~result.raised
         /\ result.val \in
              SuccessfulProviderTexts
              \cup {generate_local_script(args.topic, args.expertise, args.duration,
                        get_topic_content(args.topic, args.expertise).concepts,
                        get_topic_content(args.topic, args.expertise).code_examples)}

\* both keys configured, both providers failing, and a result is returned
C2_Witness ==
    /\ phase = "ai_generate_tutorial_content"
    /\ deepseek_key /\ openai_key
    /\ env.deepseek.kind = "exception" /\ env.openai.kind = "exception"
    /\ ~result.raised
    /\ TextNonEmpty(result.val.content.text)

CalledAt(fn) == {i \in DOMAIN calls : calls[i].fn = fn}

\* C3: in _generate_ai_script the local template is used only after every
\* configured provider was called, DeepSeek before OpenAI, and returned nothing.
C3_TemplateOnlyAfterEveryConfiguredProvider ==
    (phase = "generate_ai_script" /\ result.via = "template") =>
        /\ deepseek_key => CalledAt("_call_deepseek_api") # {}
        /\ openai_key => CalledAt("_call_openai_api") # {}
        /\ \A i \in CalledAt("_call_deepseek_api"), j \in CalledAt("_call_openai_api") : i < j
        /\ \A i \in DOMAIN calls : ~Truthy(calls[i].ret.val)

AnswersText(resp) ==
    /\ resp.kind = "http" /\ resp.status = 200 /\ resp.body.json
    /\ \E t \in ProviderTexts : TextNonEmpty(t) /\ resp.body.value = WellFormed(Str(t))

TextOf(resp) == resp.body.value.choices[1].message.content

\* C4: generate_tutorial_content of aiservices returns the first successful
\* provider's text: with a key configured and that provider answering with
\* non-empty text, the returned content is that text.
C4_ReturnsFirstSuccessfulProviderText ==
    phase = "ai_generate_tutorial_content" =>
        /\ (deepseek_key /\ AnswersText(env.deepseek)) =>
              (~result.raised /\ result.val.content = TextOf(env.deepseek))
        /\ (openai_key /\ AnswersText(env.openai)
              /\ (deepseek_key => ~AnswersText(env.deepseek))) =>
              (~result.raised /\ result.val.content = TextOf(env.openai))

\* C5: text_to_speech returns a non-empty audio byte string whatever tiers fail.
C5_AudioAlwaysNonEmpty ==
    phase = "text_to_speech" =>
        /\ ~result.raised
        /\ result.val.kind = "bytes"
        /\ Len(result.val.text) > 0

ChatStyleFns == {"_call_openrouter_chat", "_call_deepseek_api", "_call_openai_api",
                 "AudioGenerator._call_deepseek_api"}

\* what a provider call has to return, from its response alone
ExpectedReturn(c) ==
    IF c.resp.kind = "http" /\ c.resp.status = 200
    THEN IF c.fn \in ChatStyleFns
         THEN IF c.resp.body.json
                 /\ \E x \in JsonContents : c.resp.body.value = WellFormed(x)
              THEN Ret(c.resp.body.value.choices[1].message.content)
              ELSE Ret(None)
         ELSE Ret(Bytes(c.resp.content))
    ELSE Ret(None)

ProviderPhases == {"generate_tutorial_content", "generate_audio",
                   "ai_generate_tutorial_content", "generate_ai_script",
                   "generate_tutorial_script"}

\* C10: each provider call returns the payload on HTTP 200 with a well-formed
\* body and returns None, without raising, on every other outcome.
C10_ProviderCallsReturnPayloadOrNone ==
    phase \in ProviderPhases =>
        \A i \in DOMAIN calls : calls[i].ret = ExpectedReturn(calls[i])

\* a 200 answer whose body has no choices[0].message, taken as None
C10_Witness ==
    /\ phase = "generate_ai_script"
    /\ \E i \in DOMAIN calls :
         /\ calls[i].fn = "_call_openai_api"
         /\ calls[i].resp.kind = "http" /\ calls[i].resp.status = 200
         /\ calls[i].resp.body = JsonBody([choices |-> << [finish_reason |-> "stop"] >>])
         /\ calls[i].ret = Ret(None)

-----------------------------------------------------------------------------
(* Properties of the routes *)

Admitted == result.status # 429

\* C6: in POST /generate-audio/<tutorial_id>, when the local speech engine is
\* missing or throws while rendering, the response is a success carrying a
\* playable audio_url; the failure is never returned as an error response.
C6_EngineFailureRecoveredByPlaceholder ==
    (phase = "route_generate_audio" /\ env.engine \in {"missing", "throws"}) =>
        /\ result.status = 200
        /\ result.body.success
        /\ "audio_url" \in DOMAIN result.body

\* the codec path of the environment ran to its end: pydub imported, ffmpeg and
\* ffprobe located, the export done and the .mp3 file present
Mp3Produced ==
    /\ env.pydub = "ok"
    /\ env.ffmpeg = "found" /\ env.ffprobe = "found"
    /\ env.convert = "ok"
    /\ env.mp3_exists = "yes"

Extension(url) == url[Len(url)]

DurationFieldsInRange == {Field("1"), Field(" 5 "), Field("60")}

ValidTopicAndExpertise(form) ==
    /\ form.topic = Field(" loops ")
    /\ form.expertise \in {Field("beginner"), Field(" expert ")}

\* the calls of the pending request into a text-generation pipeline
PipelineCalls ==
    {i \in DOMAIN calls :
        calls[i].fn \in {"openrouter_service.generate_tutorial_content",
                         "audio_generator.generate_tutorial_script"}}

\* C8: validate_tutorial_input accepts, for a valid topic and expertise, exactly
\* the integer durations 1..60; POST /generate-tutorial answers a missing,
\* non-integer, zero, negative or greater-than-60 duration with 400 and without
\* calling the generation pipeline, and passes 1 and 60 on to it.
C8_DurationAcceptedExactlyOneToSixty ==
    /\ \A d \in (0 - 3)..62 :
          validate_tutorial_input("loops", "beginner", PyInt(d))[1] <=> d \in 1..60
    /\ ~validate_tutorial_input("loops", "beginner", None)[1]
    /\ (phase = "route_generate_tutorial" /\ Admitted) =>
          /\ args.form.duration \notin DurationFieldsInRange =>
                (result.status = 400 /\ ~result.body.success /\ PipelineCalls = {})
          /\ (args.form.duration \in DurationFieldsInRange
                 /\ ValidTopicAndExpertise(args.form)) =>
                (result.status = 200 /\ PipelineCalls # {})

\* a request for 60 minutes is accepted and reaches the pipeline with 60
C8_Witness ==
    /\ phase = "route_generate_tutorial"
    /\ args.form.duration = Field("60")
    /\ result.status = 200
    /\ PipelineCalls # {}
    /\ \A i \in PipelineCalls : calls[i].duration = 60

\* C9: on POST /generate-tutorial, POST /submit and POST /test-generation/text
\* the generation pipeline is entered only with a non-empty topic and a
\* duration of 1..60.
C9_PipelineOnlyWithValidatedInput ==
    phase \in {"route_generate_tutorial", "route_submit", "route_test_text_generation"} =>
        \A i \in PipelineCalls :
            /\ calls[i].topic # ""
            /\ calls[i].duration \in 1..60

-----------------------------------------------------------------------------
(* Properties of the service clock *)

OutboundPhases == {"generate_tutorial_content", "generate_audio"}

\* C11: one OpenRouterService used by one thread issues each outbound chat or
\* audio request at least min_request_interval after the previous one, and
\* the text and the audio request both stamp the one shared last_request_time.
C11_OutboundRequestsSpacedByInterval ==
    [][ (phase = "idle" /\ phase' \in OutboundPhases) =>
          /\ last_request_time' = calls'[1].at
          /\ last_request_time > 0 =>
                calls'[1].at - last_request_time >= min_request_interval * TicksPerSecond
      ]_vars

\* a chat request that had to sleep: it follows an earlier request so closely
\* that it is sent later than any time the clock reaches by waiting between calls
C11_Witness ==
    /\ phase = "generate_tutorial_content"
    /\ calls[1].fn = "_call_openrouter_chat"
    /\ calls[1].at > Epoch + MaxClock

\* C12: with two request threads inside the rate limiter of one shared service
\* the interval is only approximate. What still holds: every request goes out
\* at least min_request_interval after the timestamp its own thread read, and
\* two requests to one service closer together than the interval occur only
\* where the later thread read last_request_time before the earlier one wrote it.
C12_ConcurrentIntervalOnlyApproximate ==
    phase = "concurrent requests" =>
      \A j \in DOMAIN calls :
        /\ calls[j].at - calls[j].seen >= min_request_interval * TicksPerSecond
        /\ \A i \in 1..(j - 1) :
             (/\ calls[i].service = calls[j].service
              /\ calls[j].at - calls[i].at < min_request_interval * TicksPerSecond)
             => calls[j].seen < calls[i].at

\* the interleaving of the claim: two threads read the same old timestamp of
\* an earlier request, and their two requests to the same service go out less
\* than min_request_interval apart
C12_Witness ==
    /\ phase = "concurrent requests"
    /\ \E i, j \in DOMAIN calls :
         /\ i < j
         /\ calls[i].thread # calls[j].thread
         /\ calls[i].service = calls[j].service
         /\ calls[i].seen = calls[j].seen /\ calls[i].seen > 0
         /\ calls[j].at - calls[i].at < min_request_interval * TicksPerSecond

-----------------------------------------------------------------------------
(* Properties of the speech text *)

\* a markdown heading marker at index i of s: a hash sign followed by a blank
HeadingMarkerAt(s, i) == s[i] = "#" /\ i < Len(s) /\ s[i + 1] \in Whitespace

\* C13: _prepare_text_for_audio applied to its own output changes nothing.
C13_PreparedTextIsFixedPoint ==
    phase = "prepared for audio" => prepare_text_for_audio(result) = result

\* C14: for every input, the empty and the blank ones included,
\* _prepare_text_for_audio returns a non-empty text whose last character is
\* one of . ! ?
C14_EndsWithTerminalPunctuation ==
    phase = "prepared for audio" =>
        /\ result # <<>>
        /\ result[Len(result)] \in TerminalPunctuation

\* a blank input, answered with the single full stop
C14_Witness ==
    /\ phase = "prepared for audio"
    /\ args.content = <<" ", "\n">>
    /\ result = <<".">>

\* C15: the output of _prepare_text_for_audio contains no code fence and no
\* heading marker.
C15_NoFenceNoHeadingMarker ==
    phase = "prepared for audio" =>
        /\ Find(result, fence, 1) = 0
        /\ \A i \in DOMAIN result : ~HeadingMarkerAt(result, i)

\* the lines of a block that replace_code_block keeps: stripped, not empty and
\* not a comment
CodeLines(code) ==
    LET IsCodeLine(line) == str_strip(line) # <<>> /\ str_strip(line)[1] # "#"
        kept == SelectSeq(split_lines(str_strip(code)), IsCodeLine)
    IN {str_strip(kept[k]) : k \in DOMAIN kept}

\* group 1 of the matches that re.sub finds in s from index i on
RECURSIVE FencedCode(_, _, _)
FencedCode(re, s, i) ==
    IF i > Len(s) THEN {}
    ELSE IF match_end(re, s, i) > 0
    THEN {IF re = "fence_r" THEN SubSeq(s, i + 5, match_end(re, s, i) - 5)
                            ELSE SubSeq(s, i + 3, match_end(re, s, i) - 4)}
         \cup FencedCode(re, s, match_end(re, s, i))
    ELSE FencedCode(re, s, i + 1)

\* the code of the fenced blocks that step 2 replaces in content
BlocksReplaced(content) ==
    FencedCode("fence_r", re_sub("header", content), 1)
    \cup FencedCode("fence", re_sub("fence_r", re_sub("header", content)), 1)

\* C21: when the input contains a fenced code block, the returned text
\* contains none of the code lines of the block: the code is not spoken.
C21_CodeLinesNeverSpoken ==
    phase = "prepared for audio" =>
        \A code \in BlocksReplaced(args.content) :
            \A line \in CodeLines(code) : Find(result, line, 1) = 0

\* the lines joined by newlines
RECURSIVE JoinLines(_)
JoinLines(lines) ==
    IF lines = <<>> THEN <<>>
    ELSE IF Len(lines) = 1 THEN lines[1]
    ELSE lines[1] \o <<"\n">> \o JoinLines(Tail(lines))

\* a line that replace_code_block takes for a comment
IsCommentLine(line) == str_strip(line) # <<>> /\ str_strip(line)[1] = "#"

\* the code with every comment line emptied
WithoutComments(code) ==
    LET lines == split_lines(code)
    IN JoinLines([k \in DOMAIN lines |-> IF IsCommentLine(lines[k]) THEN <<>> ELSE lines[k]])

\* s from index i on, the comment lines emptied inside every fenced block
RECURSIVE BlankComments(_, _, _)
BlankComments(re, s, i) ==
    IF i > Len(s) THEN <<>>
    ELSE IF match_end(re, s, i) > 0
    THEN (IF re = "fence_r"
          THEN fence_r \o WithoutComments(SubSeq(s, i + 5, match_end(re, s, i) - 5)) \o fence_close
          ELSE fence \o WithoutComments(SubSeq(s, i + 3, match_end(re, s, i) - 4)) \o fence)
         \o BlankComments(re, s, match_end(re, s, i))
    ELSE <<s[i]>> \o BlankComments(re, s, i + 1)

\* the input with the comment lines of its fenced code blocks emptied
CommentsRemoved(content) ==
    BlankComments("fence", BlankComments("fence_r", content, 1), 1)

\* C29: the comment lines of a fenced code block have no part in the returned
\* text: the code block descriptions are built from the non-comment lines
\* only, so the same input with those comment lines emptied gives the same
\* text.
C29_CommentLinesNeverSpoken ==
    phase = "prepared for audio" =>
        result = prepare_text_for_audio(CommentsRemoved(args.content))

-----------------------------------------------------------------------------
(* Properties of the results *)

\* the pending generate_tutorial_content result was not made from a provider text
ServedByTemplate ==
    /\ phase = "generate_tutorial_content"
    /\ ~(~result.raised /\ result.val.generated_via = "openrouter")

ContentFromProvider ==
    /\ Truthy(calls[1].ret.val)
    /\ calls[1].ret.val.kind = "str"

\* C17: a result of generate_tutorial_content carries generated_via 'openrouter'
\* and, as model_used, the model id its chat request was sent with exactly
\* when its content came from the provider, and carries 'enhanced_fallback'
\* and 'local_generation' exactly when it came from the local template.
C17_ProvenanceNamesSourceAndModel ==
    (phase = "generate_tutorial_content" /\ ~result.raised) =>
        IF ContentFromProvider
        THEN /\ result.val.generated_via = "openrouter"
             /\ result.val.model_used = calls[1].model
        ELSE /\ result.val.generated_via = "enhanced_fallback"
             /\ result.val.model_used = "local_generation"

-----------------------------------------------------------------------------
(* Properties of the audio tiers *)

TierOrder == <<"openai", "elevenlabs", "local_tts", "placeholder">>

Range(f) == {f[x] : x \in DOMAIN f}

\* C18: text_to_speech attempts its tiers in the order openai, elevenlabs,
\* local engine, placeholder and stops at the first one that returns audio;
\* the placeholder is used only after the local engine was attempted and gave
\* no audio; an exception inside a tier moves on to the next tier and is
\* never raised to the caller.
C18_TiersInOrderUntilFirstAudio ==
    phase = "text_to_speech" =>
        /\ ~result.raised
        /\ calls # <<>> /\ calls = SubSeq(TierOrder, 1, Len(calls))
        /\ "placeholder" \in Range(calls) =>
              /\ "local_tts" \in Range(calls)
              /\ ~Truthy(local_tts(env.local).val)
        /\ Truthy(local_tts(env.local).val) =>
              /\ calls = SubSeq(TierOrder, 1, 3)
              /\ result = local_tts(env.local)

\* both remote tiers raise (TTS_OPTIONS has no entry for them), the local
\* engine is reached and its audio is returned
C18_Witness ==
    /\ phase = "text_to_speech"
    /\ generate_audio_with_service("openai", env.remote, env.local).raised
    /\ generate_audio_with_service("elevenlabs", env.remote, env.local).raised
    /\ calls = <<"openai", "elevenlabs", "local_tts">>
    /\ result = Ret(Bytes(<<"wav audio">>))

-----------------------------------------------------------------------------
(* Properties of the request limiter *)

\* the requests of the client that were admitted in the 60 seconds up to its
\* latest request (every admitted request is recorded in the storage, and only
\* entries older than that are dropped)
AdmittedInWindow ==
    {e \in rate_limit_storage :
        /\ e.client = (IF current_user.is_authenticated
                       THEN UserClientId(current_user.id) ELSE current_user.ip)
        /\ e.timestamp > result.at - WindowTicks}

\* C19: behind rate_limit(requests_per_minute=N) no client has more than N
\* requests admitted within any 60 seconds.
C19_AtMostNAdmittedPerWindow ==
    (phase = "rate limited route" /\ result.admitted) =>
        Cardinality(AdmittedInWindow) <= args.requests_per_minute

-----------------------------------------------------------------------------
(* Properties of POST /generate-tutorial *)

\* the pending POST /generate-tutorial asked for audio, and the audio call
\* returned no payload (the provider failed, answered an error or nothing)
AudioRequestedAndFailed ==
    /\ phase = "route_generate_tutorial"
    /\ Admitted
    /\ Len(calls) = 2
    /\ ~Truthy(call_openrouter_audio(env.audio.resp).val)

\* C20: in POST /generate-tutorial with generate_audio=true, when the audio
\* call fails the committed tutorial row stays as it was created (audio_url
\* and audio_duration unset) and the response is success=true with
\* audio_generated=false and the generated text.
C20_AudioFailureLeavesTutorialAndSucceeds ==
    AudioRequestedAndFailed =>
        /\ result.status = 200
        /\ result.body.success
        /\ result.body.audio_generated = FALSE
        /\ "audio_url" \notin DOMAIN result.body
        /\ TextNonEmpty(result.body.content)
        /\ result.body.content = calls[2].text
        /\ LET row == tutorials[result.body.tutorial_id]
           IN /\ row = Tutorial(row.id, 1, calls[1].topic, calls[1].expertise,
                                calls[1].duration, result.body.content)
              /\ row.audio_url = None
              /\ row.audio_duration = None

\* audio was asked for, the audio request timed out, and the tutorial is
\* answered without audio
C20_Witness ==
    /\ AudioRequestedAndFailed
    /\ env.audio.resp.kind = "exception"
    /\ result.status = 200
    /\ result.body.audio_generated = FALSE
    /\ tutorials[result.body.tutorial_id].audio_url = None

-----------------------------------------------------------------------------
(* Properties of the tutorial API *)

OwnerGuardedPhases == {"get_tutorial", "delete_tutorial", "track_tutorial_view"}

\* a logged-in requester has addressed an existing tutorial through one of the
\* three /api/tutorial/<id> routes
AddressedExistingTutorial ==
    /\ phase \in OwnerGuardedPhases
    /\ args.user.is_authenticated
    /\ tutorial_exists(args.tutorial_id, args.db)

\* C22: DELETE /api/tutorial/<id> removes the tutorial only for the requester
\* whose id is the tutorial's user_id; every other logged-in requester gets
\* 403 and the table stays as it was, and GET /api/tutorial/<id> and
\* POST /api/tutorial/<id>/view answer other requesters with 403 as well,
\* without serving or changing the tutorial.
C22_OnlyOwnerReadsChangesDeletes ==
    AddressedExistingTutorial =>
        IF args.db[args.tutorial_id].user_id # args.user.id
        THEN result.status = 403 /\ tutorials = args.db
        ELSE /\ result.status # 403
             /\ (phase = "delete_tutorial" /\ result.status = 200)
                    => ~tutorial_exists(args.tutorial_id, tutorials)

\* user 2 asked to delete a tutorial of user 1 and was refused
C22_Witness ==
    /\ phase = "delete_tutorial"
    /\ args.user = LoggedIn(2)
    /\ tutorial_exists(1, args.db) /\ args.db[1].user_id = 1
    /\ args.tutorial_id = 1
    /\ result.status = 403
    /\ tutorials = args.db

\* the ids of the rows of the table
LiveTutorials(db) == {i \in DOMAIN db : db[i] # DeletedRow}

\* C23: a tutorial created through POST /generate-tutorial by a logged-in
\* user has that user as its user_id; so a session that is the only one to
\* create tutorials reads every tutorial of the table through
\* /api/tutorial/<id>, may delete it, and finds all of them in /api/tutorials.
C23_CreatorOwnsCreatedTutorial ==
    /\ (phase = "route_generate_tutorial" /\ args.user.is_authenticated
            /\ result.status = 200)
          => tutorials[result.body.tutorial_id].user_id = args.user.id
    /\ (AddressedExistingTutorial /\ phase = "get_tutorial") => result.status = 200
    /\ (AddressedExistingTutorial /\ phase = "delete_tutorial") => result.status # 403
    /\ (phase = "list_tutorials" /\ args.user.is_authenticated)
          => result.body.total = Cardinality(LiveTutorials(args.db))

-----------------------------------------------------------------------------
(* Properties of the stored audio *)

\* C24: in every row of the Tutorial table, after any sequence of requests,
\* audio_format names the format of the file audio_url points to: a .wav
\* audio_url goes with audio_format wav, a .mp3 audio_url with mp3.
C24_StoredFormatMatchesStoredUrl ==
    \A i \in DOMAIN tutorials :
        tutorials[i].audio_url.kind = "str" =>
            /\ Extension(tutorials[i].audio_url.text) = ".wav"
                  => tutorials[i].audio_format = "wav"
            /\ Extension(tutorials[i].audio_url.text) = ".mp3"
                  => tutorials[i].audio_format = "mp3"

-----------------------------------------------------------------------------
(* Properties of the usage log *)

\* C26: a POST /generate-tutorial of a logged-in user that is answered 400
\* (input rejected) or 500 (generation failed) leaves the usage log, and with
\* it the user's get_monthly_usage, as it was.
C26_UsageLoggedOnlyForCreatedTutorials ==
    [][(/\ phase' = "route_generate_tutorial"
        /\ args'.user.is_authenticated
        /\ result'.status \in {400, 500})
       => /\ usage_log' = usage_log
          /\ get_monthly_usage(args'.user, usage_log')
               = get_monthly_usage(args'.user, usage_log)]_vars

-----------------------------------------------------------------------------
(* Properties of the rate limiter with two clients *)

\* the entries of the storage that the client itself has made
OwnRequests(user, storage) == {e \in storage : e.client = client_id_of(user)}

\* C25: whether a request is admitted depends on the requests of the same
\* client only: the decision is the one rate_limit takes when the entries of
\* every other client are taken out of the storage.
C25_AdmissionIndependentOfOtherClients ==
    [][(phase = "two clients" /\ result'.at = clock)
       => result'.admitted =
              rate_limit(args.requests_per_minute, current_user, clock,
                         OwnRequests(current_user, rate_limit_storage)).admitted]_vars

-----------------------------------------------------------------------------
(* Properties of admin POST /test-openrouter *)

\* the status was made from the answer to a request sent with the key
CheckedWithKey(status, api_key) ==
    \E i \in DOMAIN calls :
        /\ calls[i].at = status.last_check
        /\ calls[i].api_key = api_key

\* C27: the answer of POST /test-openrouter comes from a status request made
\* with the api_key of that request, whatever get_model_status was asked
\* before; and what GET /api/openrouter/status returns while no test is
\* running comes from a request made with the service's own key, whatever
\* test was run before.
C27_TestChecksSuppliedCredentials ==
    /\ result # Idle /\ result.route = "test_openrouter_connection"
          => CheckedWithKey(result.status, result.supplied.api_key)
    /\ (result # Idle /\ result.route = "openrouter_status" /\ result.tests_running = {})
          => CheckedWithKey(result.status, result.api_key)

\* no request thread is inside test_openrouter_connection
NoTestRunning == \A t \in Threads : threads[t].pc = "outside"

\* C28: once every POST /test-openrouter has completed, the api_key, site_url
\* and site_name of the shared service are those from before the requests.
C28_CredentialsRevertedAfterTests ==
    (phase = "admin" /\ NoTestRunning)
        => credentials(openrouter) = credentials(OpenRouterService)

-----------------------------------------------------------------------------
(* Properties of the prompts *)

\* C30: for every duration from 1 to 60 the section times written into a
\* prompt are whole numbers above zero: the introduction, core, examples and
\* summary seconds of _create_comprehensive_prompt and the Core Learning
\* Content minutes of _create_tutorial_prompt.
C30_SectionTimesArePositive ==
    /\ phase = "_create_comprehensive_prompt" =>
          /\ result.intro_seconds \in Nat \ {0}
          /\ result.core_seconds \in Nat \ {0}
          /\ result.examples_seconds \in Nat \ {0}
          /\ result.summary_seconds \in Nat \ {0}
    /\ phase = "_create_tutorial_prompt" => result.core_minutes \in Nat \ {0}

====
